---- MODULE Spec2Model ----
(***************************************************************************)
(* WavePulse recording-and-handoff core: the Lifecycle Controller          *)
(* (wavepulse.py), the Station Recorders and the Buffer Allocator          *)
(* (audio_processor/audio_streamer.py), the Listeners                      *)
(* (audio_processor/scribe_listener.py) with the transcription loop        *)
(* (audio_processor/scribe.py), and the shared run flag (config.py).       *)
(* Further parts: the names of the files from recording to classification, *)
(* record_segment with a clock, the selection of a classification batch,   *)
(* the three text views of reformat_and_save and the copy into a buffer    *)
(* directory taken in two steps.                                           *)
(*                                                                         *)
(* Time is abstracted: sleeps and time-outs are steps that may be taken in *)
(* any interleaving with the steps of the other processes.  Every action   *)
(* reads or writes the shared flag or one directory at most once, so the   *)
(* interleavings of the model are those of the processes.                  *)
(***************************************************************************)
EXTENDS Integers, Sequences, FiniteSets, TLC

\* ---------------------------------------------------------------- bounds
NumStations == 2
MaxDevices == 3
MaxListeners == 2
MaxRetries == 2
MaxDuration == 3
MaxRepetitions == 2
MaxLeftover == 3
LiveLeftover == 2

\* segment_duration, in the time unit of MaxDuration
SegmentDuration == 2

Stations == 1..NumStations
Devices == 1..MaxDevices
Generations == 1..MaxRepetitions

\* url of a station: "m3u8" in url (playlist stream) or not (direct stream)
StreamKind(s) == IF s % 2 = 0 THEN "m3u8" ELSE "direct"

\* a file name: station s, k-th segment start time of that station
FileName(s, k) == 10 * s + k
\* a file found in buffer directory i at startup (left by an earlier run)
Leftover(i, j) == 100 * i + j

VARIABLES
    running,        \* config.shared_config["running"]
    args,           \* the configuration: no_of_devices (number_of_gpus), retries,
                    \*   repetitions (no_of_repetition), stop_recording,
                    \*   stop_transcription, stop_classification, duration (of
                    \*   each station's window in the schedule file)
    ctl,            \* start_observatory: position, loop index i, restart_flag,
                    \*   repetition in which the schedule file was compiled
    sched,          \* radio_scheduler has its triggers and is running
    durable,        \* files of audio_dir
    buffer,         \* buffer[i]: files of {audio_buffer_dir}_{i}
    transcripts,    \* files of unclassified_buffer (by audio file name)
    rec,            \* rec[s]: the record_live_stream process of station s
    lis,            \* lis[i][g]: the Listener of directory i started in repetition g
    copyLog,        \* history: <<file, i>> for every copy_to_buffer copy made
    handled,        \* history: <<i, file>> for every file a Listener of i is done with
    initCount,      \* history: file count of each buffer directory at startup
    midStop,        \* history: per station, attempt number at which the flag was
                    \*   cleared during capture (-1: not cleared during capture)
    pool,           \* the stream_parallel invocations: the stations of the slot,
                    \*   the position, result_files and the value returned
    cls,            \* cls[g]: the Classification Listener started in repetition g
    hist,           \* history: the controller's events, in order
    sc,             \* process_schedule_file and create_scheduler: the schedule
                    \*   file's content, the clock, the position, the compiled
                    \*   slots, processed_schedule.json and the cron triggers
    clf,            \* classification_listener: position, unclassified_buffer,
                    \*   the batch, and the files of the classified directories
    bak,            \* backup_files_via_ftp: position, connection attempts, the
                    \*   file being uploaded and the files of the remote folder
    seen,           \* seen[p]: the value process p read last from the flag
    nm,             \* one segment's names: the station, the time of the segment's
                    \*   start, the audio file name, the transcript's name and what
                    \*   reformat_and_save parses from it
    seg,            \* one call of record_segment with its clock: position, attempt,
                    \*   start_time, end_time, the playlist and the chunks written
    rfm,            \* one call of reformat_and_save: the classified segments, the
                    \*   loop index, the three run flags and the three text files
    sel,            \* one cycle of classification_listener: the listing of
                    \*   unclassified_buffer, the iterator of the filter loop, n
    copying         \* the <<i, file>> that shutil.copy is writing into directory i

vars == <<running, args, ctl, sched, durable, buffer,
          transcripts, rec, lis, copyLog, handled, initCount, midStop,
          pool, cls, hist, sc, clf, bak, seen,
          nm, seg, rfm, sel, copying>>

\* ------------------------------------------------------------ recorder
IdleRec ==
    [pc |-> "idle", epoch |-> 0, num_segments |-> 0, remaining_duration |-> 0,
     segment |-> 0, attempt |-> 0, sleeps |-> 0, wrote |-> FALSE,
     last |-> "-", ret |-> "-", site |-> "-",
     i |-> 0, min_files |-> 0, temp_folder |-> 0, counts |-> <<>>,
     out |-> -1]

\* record_live_stream: number of segments of one invocation
TotalSegments(r) == r.num_segments + (IF r.remaining_duration > 0 THEN 1 ELSE 0)

StartRecWholeOnly(d, g) ==
    [IdleRec EXCEPT !.pc = "segment", !.epoch = g,
                    !.num_segments = d \div SegmentDuration]

\* record_live_stream, lines 176-190: split the duration into segments
StartRec(d, g) ==
    [IdleRec EXCEPT !.pc = "segment", !.epoch = g,
                    !.num_segments = d \div SegmentDuration,
                    !.remaining_duration = d % SegmentDuration]

ReturnValueStopped(site) ==
    CASE site = "ok" -> "True"
      [] site = "stopped" -> "Stopped"
      [] site = "empty" -> "False"
      [] site = "exhausted" -> "False"
      [] site = "break" -> "None"

\* the value record_segment returns at each of its return sites
ReturnValue(site) ==
    CASE site = "ok" -> "True"
      [] site = "stopped" -> "False"
      [] site = "empty" -> "False"
      [] site = "exhausted" -> "False"
      [] site = "break" -> "None"

\* record_segment returns (or falls off its end) at the given site
Return(r, site) == [r EXCEPT !.pc = "returned", !.site = site, !.ret = ReturnValue(site)]

\* a cron trigger fires stream_parallel for a slot: one pool process per station
Dispatch(S) ==
    /\ sched
    /\ S # {}
    /\ S \subseteq DOMAIN args.duration
    /\ \A s \in S : rec[s].pc = "idle"
    /\ rec' = [s \in Stations |->
                 IF s \in S THEN StartRec(args.duration[s], ctl.i + 1) ELSE rec[s]]
    /\ midStop' = [s \in Stations |-> IF s \in S THEN -1 ELSE midStop[s]]
    /\ pool' = pool \cup {[stations |-> S, pc |-> "map", result_files |-> <<>>,
                            ret |-> [kind |-> "-"]]}
    /\ UNCHANGED <<running, args, ctl, sched, durable,
                   buffer, transcripts, lis, copyLog, handled, initCount, cls, hist,
                   sc, clf, bak, seen,
                   nm, seg, rfm, sel, copying>>

\* record_live_stream, the for loop and the last segment: next segment or return
NextSegment(s) ==
    /\ rec[s].pc = "segment"
    /\ IF rec[s].segment < TotalSegments(rec[s])
       THEN rec' = [rec EXCEPT ![s] = [@ EXCEPT !.pc = "attempt",
                                                !.segment = @ + 1,
                                                !.attempt = 0, !.sleeps = 0,
                                                !.wrote = FALSE, !.last = "-",
                                                !.ret = "-", !.site = "-"]]
       ELSE rec' = [rec EXCEPT ![s] = [IdleRec EXCEPT !.pc = "done",
                                                      !.out = FileName(s, rec[s].segment),
                                                      !.segment = rec[s].segment,
                                                      !.epoch = rec[s].epoch]]
    /\ midStop' = [midStop EXCEPT ![s] = -1]
    /\ UNCHANGED <<running, args, ctl, sched, durable,
                   buffer, transcripts, lis, copyLog, handled, initCount, pool, cls, hist,
                   sc, clf, bak, seen,
                   nm, seg, rfm, sel, copying>>

\* outcomes of one network request
Outcomes == {"ok", "timeout", "connection_error", "request_error"}

AfterRequestRetryAll(r, o) == [r EXCEPT !.pc = "wait", !.last = o]

\* record_segment, the except clauses: where an attempt goes after a request
AfterRequest(r, o) ==
    CASE o \in {"timeout", "connection_error"} -> [r EXCEPT !.pc = "wait", !.last = o]
      [] o = "request_error" -> Return([r EXCEPT !.last = o], "break")

\* record_segment, top of the for loop: open the stream and the output file
BeginAttempt(s) ==
    /\ rec[s].pc = "attempt"
    /\ \E o \in Outcomes :
          IF StreamKind(s) = "direct" /\ o # "ok"
          THEN /\ rec' = [rec EXCEPT ![s] = AfterRequest(@, o)]
               /\ UNCHANGED durable
          ELSE /\ o = "ok"
               /\ rec' = [rec EXCEPT ![s] = [@ EXCEPT !.pc = "capture", !.wrote = FALSE,
                                                        !.last = "ok"]]
               /\ durable' = durable \cup {FileName(s, rec[s].segment)}
    /\ UNCHANGED <<running, args, ctl, sched,
                   buffer, transcripts, lis, copyLog, handled, initCount, pool, cls, hist,
                   midStop,
                   sc, clf, bak, seen,
                   nm, seg, rfm, sel, copying>>

\* record_segment, one turn of the capture loop after the chunk was written:
\* the check of the shared flag
AfterChunk(r) ==
    IF ~running THEN Return([r EXCEPT !.wrote = TRUE, !.last = "ok"], "stopped")
    ELSE [r EXCEPT !.wrote = TRUE, !.last = "ok"]

\* record_live_stream ends with an exception that record_segment does not
\* catch (StopIteration of next(chunk) at the end of a direct stream, an error
\* of m3u8.load): the invocation has no return value
Raised(r) ==
    [IdleRec EXCEPT !.pc = "done", !.out = -2, !.segment = r.segment,
                    !.epoch = r.epoch]

\* record_segment, one turn of the capture loop (lines 54-80 and 86-94)
Capture(s) ==
    /\ rec[s].pc = "capture"
    /\ \/ \* the segment's time is over
          /\ rec[s].wrote \/ (StreamKind(s) = "m3u8" /\ rec[s].attempt > 0)
          /\ rec' = [rec EXCEPT ![s] = Return(@, "ok")]
       \/ \* the playlist has no segments
          /\ StreamKind(s) = "m3u8"
          /\ rec' = [rec EXCEPT ![s] = Return(@, "empty")]
       \/ \E o \in Outcomes :
             rec' = [rec EXCEPT ![s] = IF o = "ok" THEN AfterChunk(@)
                                       ELSE AfterRequest(@, o)]
       \/ \* an exception that is not a requests exception
          rec' = [rec EXCEPT ![s] = Raised(@)]
    /\ UNCHANGED <<running, args, ctl, sched, durable,
                   buffer, transcripts, lis, copyLog, handled, initCount, pool, cls, hist,
                   midStop,
                   sc, clf, bak, seen,
                   nm, seg, rfm, sel, copying>>

AttemptsAsGiven(n) == n

\* record_segment, line 43: the number of attempts of the for loop
Attempts(n) == n + 1

\* record_segment, line 111 and the else clause of the for loop
Wait(s) ==
    /\ rec[s].pc = "wait"
    /\ LET r == [rec[s] EXCEPT !.sleeps = @ + 1, !.attempt = @ + 1]
       IN  rec' = [rec EXCEPT ![s] = IF r.attempt < Attempts(args.retries)
                                     THEN [r EXCEPT !.pc = "attempt"]
                                     ELSE Return(r, "exhausted")]
    /\ UNCHANGED <<running, args, ctl, sched, durable,
                   buffer, transcripts, lis, copyLog, handled, initCount, pool, cls, hist,
                   midStop,
                   sc, clf, bak, seen,
                   nm, seg, rfm, sel, copying>>

SegmentFailedIfFalse(ret) == ret = "False"

\* record_live_stream, lines 199 and 217: not record_segment(...)
SegmentFailed(ret) == ret # "True"

\* record_live_stream, lines 199-202 and 217-221: the result of record_segment
AfterSegment(s) ==
    /\ rec[s].pc = "returned"
    /\ IF SegmentFailed(rec[s].ret)
       THEN rec' = [rec EXCEPT ![s] = [IdleRec EXCEPT !.pc = "done", !.out = 0,
                                                      !.segment = rec[s].segment,
                                                      !.epoch = rec[s].epoch]]
       ELSE rec' = [rec EXCEPT ![s] = [@ EXCEPT !.pc = "list", !.i = 1,
                                                !.temp_folder = 1,
                                                !.attempt = 0, !.sleeps = 0,
                                                !.wrote = FALSE, !.last = "-",
                                                !.ret = "-", !.site = "-"]]
    /\ UNCHANGED <<running, args, ctl, sched, durable,
                   buffer, transcripts, lis, copyLog, handled, initCount, pool, cls, hist,
                   midStop,
                   sc, clf, bak, seen,
                   nm, seg, rfm, sel, copying>>

BalanceLastMin(r, count) ==
    LET q == [r EXCEPT !.counts = Append(@, count), !.i = @ + 1]
    IN  IF r.i = 1 THEN [q EXCEPT !.min_files = count]
        ELSE IF r.min_files >= count
             THEN [q EXCEPT !.min_files = count, !.temp_folder = r.i]
             ELSE q

BalanceFullest(r, count) ==
    LET q == [r EXCEPT !.counts = Append(@, count), !.i = @ + 1]
    IN  IF r.i = 1 THEN [q EXCEPT !.min_files = count]
        ELSE IF r.min_files < count
             THEN [q EXCEPT !.min_files = count, !.temp_folder = r.i]
             ELSE q

\* copy_to_buffer, lines 122-128 for one directory: keep the lower count
Balance(r, count) ==
    LET q == [r EXCEPT !.counts = Append(@, count), !.i = @ + 1]
    IN  IF r.i = 1 THEN [q EXCEPT !.min_files = count]
        ELSE IF r.min_files > count
             THEN [q EXCEPT !.min_files = count, !.temp_folder = r.i]
             ELSE q

\* copy_to_buffer: one os.listdir of the load-balancing loop
ListDir(s) ==
    /\ rec[s].pc = "list"
    /\ IF rec[s].i <= args.no_of_devices
       THEN rec' = [rec EXCEPT ![s] = Balance(@, Cardinality(buffer[rec[s].i]))]
       ELSE rec' = [rec EXCEPT ![s] = [@ EXCEPT !.pc = "copy"]]
    /\ UNCHANGED <<running, args, ctl, sched, durable,
                   buffer, transcripts, lis, copyLog, handled, initCount, pool, cls, hist,
                   midStop,
                   sc, clf, bak, seen,
                   nm, seg, rfm, sel, copying>>

CopyIntoEach(b, j, f) == [i \in Devices |-> IF i <= j THEN b[i] \cup {f} ELSE b[i]]

\* copy_to_buffer, line 133: the directories after shutil.copy of file f into j
CopyInto(b, j, f) == [b EXCEPT ![j] = @ \cup {f}]

\* copy_to_buffer, lines 130-137
CopyToBuffer(s) ==
    /\ rec[s].pc = "copy"
    /\ LET f == FileName(s, rec[s].segment)
           j == rec[s].temp_folder
       IN  /\ buffer' = CopyInto(buffer, j, f)
           /\ copyLog' = copyLog \cup {<<f, i>> : i \in {k \in Devices :
                                                          f \in buffer'[k] \ buffer[k]}}
    /\ rec' = [rec EXCEPT ![s] = [@ EXCEPT !.pc = "segment", !.i = 0,
                                             !.min_files = 0, !.temp_folder = 0,
                                             !.counts = <<>>]]
    /\ UNCHANGED <<running, args, ctl, sched, durable,
                   transcripts, lis, handled, initCount, pool, cls, hist, midStop,
                   sc, clf, bak, seen,
                   nm, seg, rfm, sel, copying>>

Recorder(s) ==
    \/ NextSegment(s)
    \/ BeginAttempt(s)
    \/ Capture(s)
    \/ Wait(s)
    \/ AfterSegment(s)
    \/ ListDir(s)
    \/ CopyToBuffer(s)

JoinEarly(p) == \E s \in p.stations : rec[s].pc = "done"

\* Pool.map has the result of every station of the slot
AllDone(p) == \A s \in p.stations : rec[s].pc = "done"

\* stream_parallel, line 308: the value it returns
StreamParallelReturn(result_files) == [kind |-> "None"]

\* stream_parallel, lines 299-308: pool.map returns the results in the order of
\* the stations, or raises the exception of a recorder once all have ended
Join(p) ==
    /\ p \in pool
    /\ p.pc = "map"
    /\ AllDone(p)
    /\ LET result_files == [s \in p.stations |-> rec[s].out]
       IN  pool' = (pool \ {p}) \cup
                   {IF \E s \in p.stations : result_files[s] = -2
                    THEN [p EXCEPT !.pc = "raised"]
                    ELSE [p EXCEPT !.pc = "returned", !.result_files = result_files,
                                   !.ret = StreamParallelReturn(result_files)]}
    /\ UNCHANGED <<running, args, ctl, sched, durable, buffer, transcripts,
                   rec, lis, copyLog, handled, initCount, midStop, cls, hist,
                   sc, clf, bak, seen,
                   nm, seg, rfm, sel, copying>>

\* ------------------------------------------------------------ listener
OffLis == [pc |-> "off", todo |-> {}, cur |-> 0, count |-> 0]

Alive(l) == l.pc \in {"poll", "batch", "transcribe", "remove"}

\* start_scribe_listener, lines 121-146: the while test and the directory listing
Poll(i, g) ==
    /\ lis[i][g].pc = "poll"
    /\ IF ~running
       THEN lis' = [lis EXCEPT ![i][g] = [@ EXCEPT !.pc = "exited"]]
       ELSE IF buffer[i] = {}
            THEN UNCHANGED lis
            ELSE lis' = [lis EXCEPT ![i][g] = [@ EXCEPT !.pc = "batch",
                                                        !.todo = buffer[i],
                                                        !.count = 0]]
    /\ UNCHANGED <<running, args, ctl, sched, durable,
                   buffer, transcripts, rec, copyLog, handled, initCount, pool, cls, hist,
                   midStop,
                   sc, clf, bak, seen,
                   nm, seg, rfm, sel, copying>>

BatchOverWhenEmpty(l) == l.todo = {}

\* transcribe_audio, lines 94-96: the for loop is exhausted, or the break
BatchOver(l) == l.todo = {} \/ ~running

\* transcribe_audio, lines 94-96: the next file of the batch, or the end of it
NextFile(i, g) ==
    /\ lis[i][g].pc = "batch"
    /\ IF BatchOver(lis[i][g])
       THEN lis' = [lis EXCEPT ![i][g] = [@ EXCEPT !.pc = "poll", !.todo = {},
                                                   !.count = 0]]
       ELSE \E f \in lis[i][g].todo :
               lis' = [lis EXCEPT ![i][g] = [@ EXCEPT !.pc = "transcribe",
                                                       !.cur = f,
                                                       !.todo = @ \ {f}]]
    /\ UNCHANGED <<running, args, ctl, sched, durable,
                   buffer, transcripts, rec, copyLog, handled, initCount, pool, cls, hist,
                   midStop,
                   sc, clf, bak, seen,
                   nm, seg, rfm, sel, copying>>

TranscribeCountsErrors(i, g) ==
    /\ lis[i][g].pc = "transcribe"
    /\ \/ /\ lis[i][g].cur \in buffer[i]
          /\ transcripts' = transcripts \cup {lis[i][g].cur}
       \/ UNCHANGED transcripts
    /\ lis' = [lis EXCEPT ![i][g] = [@ EXCEPT !.pc = "remove", !.count = @ + 1]]
    /\ UNCHANGED <<running, args, ctl, sched, durable,
                   buffer, rec, copyLog, handled, initCount, pool, cls, hist, midStop,
                   sc, clf, bak, seen,
                   nm, seg, rfm, sel, copying>>

\* transcribe_audio, lines 97-142: transcribe one file, or log its error
Transcribe(i, g) ==
    /\ lis[i][g].pc = "transcribe"
    /\ \/ /\ lis[i][g].cur \in buffer[i]
          /\ transcripts' = transcripts \cup {lis[i][g].cur}
          /\ lis' = [lis EXCEPT ![i][g] = [@ EXCEPT !.pc = "remove", !.count = @ + 1]]
       \/ /\ lis' = [lis EXCEPT ![i][g] = [@ EXCEPT !.pc = "remove"]]
          /\ UNCHANGED transcripts
    /\ UNCHANGED <<running, args, ctl, sched, durable,
                   buffer, rec, copyLog, handled, initCount, pool, cls, hist, midStop,
                   sc, clf, bak, seen,
                   nm, seg, rfm, sel, copying>>

RemoveAll(b, i, f) == [b EXCEPT ![i] = {}]

RemoveNothing(b, i, f) == b

\* transcribe_audio, lines 145-146: the directories after os.remove of f in i
RemoveFrom(b, i, f) == [b EXCEPT ![i] = @ \ {f}]

\* transcribe_audio, lines 144-146: delete the file that was attempted
Remove(i, g) ==
    /\ lis[i][g].pc = "remove"
    /\ buffer' = RemoveFrom(buffer, i, lis[i][g].cur)
    /\ handled' = handled \cup {<<i, lis[i][g].cur>>}
    /\ lis' = [lis EXCEPT ![i][g] = [@ EXCEPT !.pc = "batch", !.cur = 0]]
    /\ UNCHANGED <<running, args, ctl, sched, durable,
                   transcripts, rec, copyLog, initCount, pool, cls, hist, midStop,
                   sc, clf, bak, seen,
                   nm, seg, rfm, sel, copying>>

\* the Listener process is killed from outside
Kill(i, g) ==
    /\ Alive(lis[i][g])
    /\ lis' = [lis EXCEPT ![i][g] = [@ EXCEPT !.pc = "killed"]]
    /\ UNCHANGED <<running, args, ctl, sched, durable,
                   buffer, transcripts, rec, copyLog, handled, initCount, pool, cls, hist,
                   midStop,
                   sc, clf, bak, seen,
                   nm, seg, rfm, sel, copying>>

Listener(i, g) ==
    \/ Poll(i, g)
    \/ NextFile(i, g)
    \/ Transcribe(i, g)
    \/ Remove(i, g)

\* ---------------------------------------------------------- controller
\* the stations whose record_segment is in its capture loop
Capturing == {s \in Stations : rec[s].pc = "capture"}

\* start_observatory, line 134-139: next repetition, or the end of the for loop
SetRunning ==
    /\ ctl.pc = "begin"
    /\ IF ctl.i < args.repetitions
       THEN /\ running' = TRUE
            /\ ctl' = [ctl EXCEPT !.pc = "scheduler"]
            /\ hist' = Append(hist, "start")
       ELSE /\ ctl' = [ctl EXCEPT !.pc = "stopped"]
            /\ UNCHANGED <<running, hist>>
    /\ UNCHANGED <<args, sched, durable, buffer,
                   transcripts, rec, lis, copyLog, handled, initCount, pool, cls,
                   midStop,
                   sc, clf, bak, seen,
                   nm, seg, rfm, sel, copying>>

StartSchedulerReused ==
    /\ ctl.pc = "scheduler"
    /\ sched' = ~args.stop_recording
    /\ ctl' = [ctl EXCEPT !.pc = "listeners",
                          !.compiled = IF args.stop_recording \/ @ > 0
                                       THEN @ ELSE ctl.i + 1]
    /\ UNCHANGED <<running, args, durable, buffer,
                   transcripts, rec, lis, copyLog, handled, initCount, pool, cls, hist,
                   midStop,
                   sc, clf, bak, seen,
                   nm, seg, rfm, sel, copying>>

\* start_observatory, lines 141-158: create and start the radio scheduler
\* (create_radio_streaming_scheduler compiles the schedule file, compiled is
\* the repetition in which process_schedule_file ran last)
StartScheduler ==
    /\ ctl.pc = "scheduler"
    /\ sched' = ~args.stop_recording
    /\ ctl' = [ctl EXCEPT !.pc = "listeners",
                          !.compiled = IF args.stop_recording THEN @ ELSE ctl.i + 1]
    /\ UNCHANGED <<running, args, durable, buffer,
                   transcripts, rec, lis, copyLog, handled, initCount, pool, cls, hist,
                   midStop,
                   sc, clf, bak, seen,
                   nm, seg, rfm, sel, copying>>

\* start_multiple_scribe_listener: one new Listener process per directory
StartListeners ==
    /\ ctl.pc = "listeners"
    /\ lis' = [i \in Devices |->
                 IF i <= args.no_of_devices /\ ~args.stop_transcription
                 THEN [lis[i] EXCEPT ![ctl.i + 1] = [OffLis EXCEPT !.pc = "poll"]]
                 ELSE lis[i]]
    /\ ctl' = [ctl EXCEPT !.pc = "classifier"]
    /\ UNCHANGED <<running, args, sched, durable, buffer,
                   transcripts, rec, copyLog, handled, initCount, pool, cls, hist, midStop,
                   sc, clf, bak, seen,
                   nm, seg, rfm, sel, copying>>

\* start_observatory, lines 175-182: start the Classification Listener
StartClassifier ==
    /\ ctl.pc = "classifier"
    /\ cls' = IF args.stop_classification THEN cls
              ELSE [cls EXCEPT ![ctl.i + 1] = "poll"]
    /\ ctl' = [ctl EXCEPT !.pc = "loop"]
    /\ UNCHANGED <<running, args, sched, durable, buffer, transcripts, rec, lis,
                   copyLog, handled, initCount, midStop, pool, hist,
                   sc, clf, bak, seen,
                   nm, seg, rfm, sel, copying>>

ShutdownKeepsTriggers ==
    /\ ctl.pc = "loop"
    /\ ctl.restart_flag = 1
    /\ running' = FALSE
    /\ ctl' = [ctl EXCEPT !.pc = "drain"]
    /\ midStop' = [s \in Stations |->
                     IF s \in Capturing /\ running /\ midStop[s] = -1
                     THEN rec[s].attempt ELSE midStop[s]]
    /\ hist' = Append(hist, "shutdown")
    /\ UNCHANGED <<args, sched, durable, buffer,
                   transcripts, rec, lis, copyLog, handled, initCount, pool, cls,
                   sc, clf, bak, seen,
                   nm, seg, rfm, sel, copying>>

\* stop_background_processes, called in the shutdown window (lines 203-227)
Shutdown ==
    /\ ctl.pc = "loop"
    /\ ctl.restart_flag = 1
    /\ running' = FALSE
    /\ sched' = FALSE
    /\ ctl' = [ctl EXCEPT !.pc = "drain"]
    /\ midStop' = [s \in Stations |->
                     IF s \in Capturing /\ running /\ midStop[s] = -1
                     THEN rec[s].attempt ELSE midStop[s]]
    /\ hist' = Append(hist, "shutdown")
    /\ UNCHANGED <<args, durable, buffer,
                   transcripts, rec, lis, copyLog, handled, initCount, pool, cls,
                   sc, clf, bak, seen,
                   nm, seg, rfm, sel, copying>>

\* What the 90 s of time.sleep(90) outlast: the 60 s idle sleep of a Listener
\* or of a Classification Listener and every recorder step that is bounded by the 10 s request time-out
\* (m3u8.load has no time-out; the sleep of wait_time is followed by a new
\* request).
Settled ==
    /\ \A i \in Devices, g \in Generations : lis[i][g].pc # "poll"
    /\ \A g \in Generations : cls[g] # "poll"
    /\ \A s \in Stations :
          \/ rec[s].pc \in {"idle", "done", "wait"}
          \/ StreamKind(s) = "m3u8" /\ rec[s].pc = "capture"

DrainedOneMore ==
    /\ ctl.pc = "drain"
    /\ Settled
    /\ IF ctl.i < args.repetitions
       THEN ctl' = [ctl EXCEPT !.pc = "loop", !.restart_flag = 0]
       ELSE ctl' = [ctl EXCEPT !.pc = "begin", !.i = @ + 1]
    /\ UNCHANGED <<running, args, sched, durable, buffer,
                   transcripts, rec, lis, copyLog, handled, initCount, pool, cls, hist,
                   midStop,
                   sc, clf, bak, seen,
                   nm, seg, rfm, sel, copying>>

\* start_observatory, lines 216-231: after the wait (and the backup)
Drained ==
    /\ ctl.pc = "drain"
    /\ Settled
    /\ IF ctl.i < args.repetitions - 1
       THEN ctl' = [ctl EXCEPT !.pc = "loop", !.restart_flag = 0]
       ELSE ctl' = [ctl EXCEPT !.pc = "begin", !.i = @ + 1]
    /\ UNCHANGED <<running, args, sched, durable, buffer,
                   transcripts, rec, lis, copyLog, handled, initCount, pool, cls, hist,
                   midStop,
                   sc, clf, bak, seen,
                   nm, seg, rfm, sel, copying>>

\* start_observatory, lines 232-238: restart_time has passed
Restart ==
    /\ ctl.pc = "loop"
    /\ ctl.restart_flag = 0
    /\ ctl' = [ctl EXCEPT !.pc = "begin", !.restart_flag = 1, !.i = @ + 1]
    /\ hist' = Append(hist, "restart")
    /\ UNCHANGED <<running, args, sched, durable, buffer,
                   transcripts, rec, lis, copyLog, handled, initCount, pool, cls,
                   midStop,
                   sc, clf, bak, seen,
                   nm, seg, rfm, sel, copying>>

\* the names the except clause of start_observatory reads are bound:
\* radio_scheduler and classification_executor are first assigned inside the
\* try block, at lines 145 and 177 of the first repetition
HandlerBound == ctl.i > 0 \/ ctl.pc \in {"loop", "drain"}

\* KeyboardInterrupt or SystemExit in start_observatory (lines 240-245): the
\* except clause calls stop_background_processes, or fails on an unbound name
Interrupt ==
    /\ ctl.pc \in {"begin", "scheduler", "listeners", "classifier", "loop", "drain"}
    /\ IF HandlerBound
       THEN /\ running' = FALSE
            /\ sched' = FALSE
            /\ ctl' = [ctl EXCEPT !.pc = "interrupted"]
       ELSE /\ ctl' = [ctl EXCEPT !.pc = "crashed"]
            /\ UNCHANGED <<running, sched>>
    /\ hist' = Append(hist, "interrupt")
    /\ UNCHANGED <<args, durable, buffer, transcripts, rec, lis, copyLog,
                   handled, initCount, midStop, pool, cls,
                   sc, clf, bak, seen,
                   nm, seg, rfm, sel, copying>>

\* classification_listener, the while test: the loop ends on the cleared flag
Classifier(g) ==
    /\ cls[g] = "poll"
    /\ ~running
    /\ cls' = [cls EXCEPT ![g] = "exited"]
    /\ UNCHANGED <<running, args, ctl, sched, durable, buffer, transcripts, rec,
                   lis, copyLog, handled, initCount, midStop, pool, hist,
                   sc, clf, bak, seen,
                   nm, seg, rfm, sel, copying>>

Controller ==
    \/ SetRunning
    \/ StartScheduler
    \/ StartListeners
    \/ StartClassifier
    \/ Shutdown
    \/ Drained
    \/ Restart

\* ------------------------------------------------------------ schedule
\* A time string is the sequence of its characters.  Chars lists the
\* characters in the order of their codes, which is the order Python compares
\* strings by.
Chars == <<"0", "1", "2", "3", "4", "5", "6", "7", "8", "9", ":">>
Code(c) == CHOOSE k \in 1..Len(Chars) : Chars[k] = c
Digit(c) == Code(c) - 1

\* the decimal number written by one or two digits
Number(ds) == IF Len(ds) = 1 THEN Digit(ds[1]) ELSE 10 * Digit(ds[1]) + Digit(ds[2])

\* "%02d"
Two(n) == <<Chars[(n \div 10) + 1], Chars[(n % 10) + 1]>>

DaySeconds == 24 * 60 * 60

\* timedelta(minutes=2), in seconds
AdjustSeconds == 2 * 60

\* datetime.strftime with "%H:%M", of a number of seconds since midnight
Strftime(t) == Two(t \div 3600) \o <<":">> \o Two((t % 3600) \div 60)

ColonAt(s) == {k \in 1..Len(s) : s[k] = ":"}
HourPart(s) == SubSeq(s, 1, (CHOOSE k \in ColonAt(s) : TRUE) - 1)
MinutePart(s) == SubSeq(s, (CHOOSE k \in ColonAt(s) : TRUE) + 1, Len(s))

\* datetime.strptime with "%H:%M" accepts one or two digits of an hour up to
\* 23, a colon, and one or two digits of a minute up to 59
Accepted(s) ==
    /\ Cardinality(ColonAt(s)) = 1
    /\ Len(HourPart(s)) \in {1, 2}
    /\ Len(MinutePart(s)) \in {1, 2}
    /\ Number(HourPart(s)) <= 23
    /\ Number(MinutePart(s)) <= 59

\* datetime.strptime with "%H:%M": seconds since midnight; -1 for ValueError
Strptime(s) ==
    IF Accepted(s)
    THEN 3600 * Number(HourPart(s)) + 60 * Number(MinutePart(s))
    ELSE -1

GetDurationNoWrap(start_time, end_time) ==
    Strptime(end_time) - Strptime(start_time)

\* get_duration (lines 21-41)
GetDuration(start_time, end_time) ==
    LET start == Strptime(start_time)
        end == Strptime(end_time)
    IN  IF end < start THEN end + DaySeconds - start ELSE end - start

\* lines 67-72: the end of a window that wraps is moved to the next day; on
\* the last day of a month line 69 fails and line 72 gives the same day, on
\* December 31 line 72 fails as well (-1: ValueError)
EndOfWindow(start, end, now) ==
    IF end < start
    THEN IF now.day = "dec31" THEN -1 ELSE end + DaySeconds
    ELSE end

\* handle_already_started raises: a string strptime rejects, or line 72
WindowRaises(w, now) ==
    \/ ~Accepted(w[1])
    \/ ~Accepted(w[2])
    \/ EndOfWindow(Strptime(w[1]), Strptime(w[2]), now) = -1

AlreadyStartedAnyEnd(w, now) ==
    LET start == Strptime(w[1])
        end == EndOfWindow(start, Strptime(w[2]), now)
    IN  IF start < now.t /\ end > now.t
        THEN <<Strftime((now.t + AdjustSeconds) % DaySeconds), w[2]>>
        ELSE w

\* handle_already_started, lines 61-78, for one window; times are seconds
\* since the midnight that began the day of now
AlreadyStarted(w, now) ==
    LET start == Strptime(w[1])
        end == EndOfWindow(start, Strptime(w[2]), now)
    IN  IF start < now.t /\ end > now.t + AdjustSeconds
        THEN <<Strftime((now.t + AdjustSeconds) % DaySeconds), w[2]>>
        ELSE w

\* Python's order of strings
RECURSIVE StrLess(_, _)
StrLess(a, b) ==
    IF a = <<>> THEN b # <<>>
    ELSE IF b = <<>> THEN FALSE
    ELSE IF a[1] = b[1] THEN StrLess(Tail(a), Tail(b))
    ELSE Code(a[1]) < Code(b[1])

\* list.sort of a list without duplicates
RECURSIVE SortStrings(_)
SortStrings(S) ==
    IF S = {} THEN <<>>
    ELSE LET m == CHOOSE x \in S : \A y \in S \ {x} : StrLess(x, y)
         IN  <<m>> \o SortStrings(S \ {m})

\* the windows of the schedule in the order of the two nested loops
RECURSIVE WindowsOf(_)
WindowsOf(info) ==
    IF info = <<>> THEN <<>>
    ELSE [k \in 1..Len(info[1].time) |->
             [radio_name |-> info[1].radio_name,
              start_time |-> info[1].time[k][1],
              end_time |-> info[1].time[k][2]]]
         \o WindowsOf(Tail(info))

\* lines 144-150
UniqueTimes(info) ==
    SortStrings({WindowsOf(info)[k].start_time : k \in 1..Len(WindowsOf(info))})

StartsAtHour(w, time_slot) == HourPart(w.start_time) = HourPart(time_slot)

\* line 158
StartsAt(w, time_slot) == w.start_time = time_slot

\* lines 155-165
StationsAtTime(info, time_slot) ==
    LET at == SelectSeq(WindowsOf(info), LAMBDA w : StartsAt(w, time_slot))
    IN  [k \in 1..Len(at) |->
            [radio_name |-> at[k].radio_name,
             duration |-> GetDuration(at[k].start_time, at[k].end_time)]]

\* lines 141-168: station_schedule_info
StationScheduleInfo(info) ==
    [k \in 1..Len(UniqueTimes(info)) |->
        [time |-> UniqueTimes(info)[k],
         radio_list |-> StationsAtTime(info, UniqueTimes(info)[k])]]

\* create_scheduler, lines 237-250: one cron trigger per time slot
Triggers(slots) ==
    [k \in 1..Len(slots) |->
        [hour |-> Number(HourPart(slots[k].time)),
         minute |-> Number(MinutePart(slots[k].time)),
         radio_list |-> slots[k].radio_list]]

NoCompile ==
    [pc |-> "-", now |-> [t |-> 0, day |-> "-"], file |-> <<>>, info |-> <<>>,
     slots |-> <<>>, processed |-> "absent", triggers |-> <<>>]

HandleAlreadyStartedSkipping ==
    /\ sc.pc = "adjust"
    /\ sc' = [sc EXCEPT !.pc = "group"]
    /\ UNCHANGED <<running, args, ctl, sched, durable, buffer, transcripts, rec,
                   lis, copyLog, handled, initCount, midStop, pool, cls, hist,
                   clf, bak, seen,
                   nm, seg, rfm, sel, copying>>

\* process_schedule_file, lines 133-138: handle_already_started
HandleAlreadyStarted ==
    /\ sc.pc = "adjust"
    /\ IF \E k \in 1..Len(WindowsOf(sc.file)) :
             WindowRaises(<<WindowsOf(sc.file)[k].start_time,
                            WindowsOf(sc.file)[k].end_time>>, sc.now)
       THEN sc' = [sc EXCEPT !.pc = "raised"]
       ELSE sc' = [sc EXCEPT
                     !.pc = "group",
                     !.info = [s \in 1..Len(sc.file) |->
                                 [sc.file[s] EXCEPT
                                    !.time = [k \in 1..Len(sc.file[s].time) |->
                                                AlreadyStarted(sc.file[s].time[k],
                                                               sc.now)]]]]
    /\ UNCHANGED <<running, args, ctl, sched, durable, buffer, transcripts, rec,
                   lis, copyLog, handled, initCount, midStop, pool, cls, hist,
                   clf, bak, seen,
                   nm, seg, rfm, sel, copying>>

\* process_schedule_file, lines 141-168
GroupByTime ==
    /\ sc.pc = "group"
    /\ sc' = [sc EXCEPT !.pc = "write", !.slots = StationScheduleInfo(sc.info)]
    /\ UNCHANGED <<running, args, ctl, sched, durable, buffer, transcripts, rec,
                   lis, copyLog, handled, initCount, midStop, pool, cls, hist,
                   clf, bak, seen,
                   nm, seg, rfm, sel, copying>>

\* process_schedule_file, lines 171-175: processed_schedule.json
WriteProcessedSchedule ==
    /\ sc.pc = "write"
    /\ sc' = [sc EXCEPT !.pc = "create", !.processed = "written"]
    /\ UNCHANGED <<running, args, ctl, sched, durable, buffer, transcripts, rec,
                   lis, copyLog, handled, initCount, midStop, pool, cls, hist,
                   clf, bak, seen,
                   nm, seg, rfm, sel, copying>>

\* create_radio_streaming_scheduler, lines 276-282, and radio_scheduler.start()
CreateScheduler ==
    /\ sc.pc = "create"
    /\ sc' = [sc EXCEPT !.pc = "started", !.triggers = Triggers(sc.slots)]
    /\ sched' = TRUE
    /\ UNCHANGED <<running, args, ctl, durable, buffer, transcripts, rec,
                   lis, copyLog, handled, initCount, midStop, pool, cls, hist,
                   clf, bak, seen,
                   nm, seg, rfm, sel, copying>>

\* ------------------------------------------- classification listener
MaxTranscripts == 3

\* args.concurrent_classification
ConcurrentClassification == 2

Transcripts == 1..MaxTranscripts

\* what a file of unclassified_buffer holds: a transcript that classifies
\* (good), content json.load rejects (not_json), an empty list of segments
\* (empty), segments that come back from classify_political without their
\* label, its call having raised (no_label), or a good transcript under a
\* file name whose state code get_timezone_by_state does not know (bad_state)
TranscriptKinds == {"good", "not_json", "empty", "no_label", "bad_state"}

NoClassifier ==
    [pc |-> "-", kind |-> <<>>, unclassified |-> {}, batch |-> <<>>, i |-> 0,
     json |-> {}, txt |-> <<>>]

\* the sequences of n different files of S
Orders(S, n) ==
    {q \in [1..n -> S] : \A j, k \in 1..n : j # k => q[j] # q[k]}

Min(a, b) == IF a < b THEN a ELSE b

\* classification_listener, lines 141-161: the while test, the listing of
\* unclassified_buffer and the choice of the batch; with no file the
\* listener sleeps and tests again
ClassificationPoll ==
    /\ clf.pc = "poll"
    /\ IF ~running
       THEN clf' = [clf EXCEPT !.pc = "exited"]
       ELSE /\ clf.unclassified # {}
            /\ \E q \in Orders(clf.unclassified,
                               Min(ConcurrentClassification,
                                   Cardinality(clf.unclassified))) :
                  clf' = [clf EXCEPT !.pc = "load", !.batch = q]
    /\ UNCHANGED <<running, args, ctl, sched, durable, buffer, transcripts, rec,
                   lis, copyLog, handled, initCount, midStop, pool, cls, hist,
                   sc, bak, seen,
                   nm, seg, rfm, sel, copying>>

\* lines 162-167: json.load of every file of the batch
LoadTranscripts ==
    /\ clf.pc = "load"
    /\ IF \E k \in 1..Len(clf.batch) : clf.kind[clf.batch[k]] = "not_json"
       THEN clf' = [clf EXCEPT !.pc = "raised"]
       ELSE clf' = [clf EXCEPT !.pc = "classify"]
    /\ UNCHANGED <<running, args, ctl, sched, durable, buffer, transcripts, rec,
                   lis, copyLog, handled, initCount, midStop, pool, cls, hist,
                   sc, bak, seen,
                   nm, seg, rfm, sel, copying>>

\* lines 170-180: classify_transcript of every transcript; the results come
\* in the order of completion.  classify_political and classify_ad return
\* from their finally clause, whatever was raised in them.
ClassifyTranscripts ==
    /\ clf.pc = "classify"
    /\ \E q \in Orders({clf.batch[k] : k \in 1..Len(clf.batch)}, Len(clf.batch)) :
          clf' = [clf EXCEPT !.pc = "json", !.batch = q, !.i = 1]
    /\ UNCHANGED <<running, args, ctl, sched, durable, buffer, transcripts, rec,
                   lis, copyLog, handled, initCount, midStop, pool, cls, hist,
                   sc, bak, seen,
                   nm, seg, rfm, sel, copying>>

\* lines 183-192: the classified JSON of the i-th result
WriteClassifiedJson ==
    /\ clf.pc = "json"
    /\ clf' = [clf EXCEPT !.pc = "reformat", !.json = @ \cup {clf.batch[clf.i]}]
    /\ UNCHANGED <<running, args, ctl, sched, durable, buffer, transcripts, rec,
                   lis, copyLog, handled, initCount, midStop, pool, cls, hist,
                   sc, bak, seen,
                   nm, seg, rfm, sel, copying>>

\* lines 204-217 and reformat_and_save: classified_transcript[0] of an empty
\* list raises at line 205, an unknown state code raises at line 48, before
\* the text files are opened; a segment without its label raises at line 69,
\* after they were opened for writing
ReformatOutcome(kind) ==
    CASE kind = "empty" -> [pc |-> "raised", txt |-> "none"]
      [] kind = "bad_state" -> [pc |-> "raised", txt |-> "none"]
      [] kind = "no_label" -> [pc |-> "raised", txt |-> "partial"]
      [] OTHER -> [pc |-> "remove", txt |-> "complete"]

ReformatAndSave ==
    /\ clf.pc = "reformat"
    /\ LET f == clf.batch[clf.i]
           o == ReformatOutcome(clf.kind[f])
       IN  clf' = [clf EXCEPT !.pc = o.pc, !.txt[f] = o.txt]
    /\ UNCHANGED <<running, args, ctl, sched, durable, buffer, transcripts, rec,
                   lis, copyLog, handled, initCount, midStop, pool, cls, hist,
                   sc, bak, seen,
                   nm, seg, rfm, sel, copying>>

\* lines 218-222: the input file is removed; next result or next poll
RemoveTranscript ==
    /\ clf.pc = "remove"
    /\ clf' = [clf EXCEPT
                 !.unclassified = @ \ {clf.batch[clf.i]},
                 !.i = @ + 1,
                 !.pc = IF clf.i < Len(clf.batch) THEN "json" ELSE "poll"]
    /\ UNCHANGED <<running, args, ctl, sched, durable, buffer, transcripts, rec,
                   lis, copyLog, handled, initCount, midStop, pool, cls, hist,
                   sc, bak, seen,
                   nm, seg, rfm, sel, copying>>

\* -------------------------------------------------------------- backup
\* connect_to_ftp, retries=3
FtpRetries == 3

NoBackup ==
    [pc |-> "-", attempts |-> 0, local |-> {}, todo |-> {}, cur |-> 0,
     remote |-> {}]

\* connect_to_ftp (lines 11-26) under backup_files_via_ftp, lines 39-43: an
\* attempt connects, or fails and is repeated after the wait, or fails as
\* the last one: the exception is caught and the backup returns
ConnectToFtp ==
    /\ bak.pc = "connect"
    /\ \/ bak' = [bak EXCEPT !.pc = "cwd"]
       \/ bak' = [bak EXCEPT !.attempts = @ + 1,
                             !.pc = IF bak.attempts + 1 < FtpRetries
                                    THEN "connect" ELSE "returned"]
    /\ UNCHANGED <<running, args, ctl, sched, durable, buffer, transcripts, rec,
                   lis, copyLog, handled, initCount, midStop, pool, cls, hist,
                   sc, clf, seen,
                   nm, seg, rfm, sel, copying>>

\* lines 47-50: ftp.cwd and os.listdir; an error is caught at lines 61-64
ChangeDirectory ==
    /\ bak.pc = "cwd"
    /\ \/ bak' = [bak EXCEPT !.pc = "upload", !.todo = durable]
       \/ bak' = [bak EXCEPT !.pc = "quit"]
    /\ UNCHANGED <<running, args, ctl, sched, durable, buffer, transcripts, rec,
                   lis, copyLog, handled, initCount, midStop, pool, cls, hist,
                   sc, clf, seen,
                   nm, seg, rfm, sel, copying>>

\* lines 50-57: the next file of the listing is stored on the server, or
\* storbinary raises and the loop is left through lines 61-64, or the
\* listing is exhausted
StoreFile ==
    /\ bak.pc = "upload"
    /\ IF bak.todo = {}
       THEN bak' = [bak EXCEPT !.pc = "quit"]
       ELSE \E f \in bak.todo :
               \/ bak' = [bak EXCEPT !.pc = "remove", !.cur = f,
                                     !.todo = @ \ {f}, !.remote = @ \cup {f}]
               \/ bak' = [bak EXCEPT !.pc = "quit", !.cur = f]
    /\ UNCHANGED <<running, args, ctl, sched, durable, buffer, transcripts, rec,
                   lis, copyLog, handled, initCount, midStop, pool, cls, hist,
                   sc, clf, seen,
                   nm, seg, rfm, sel, copying>>

\* lines 58-59: os.remove of the file just stored
RemoveLocal ==
    /\ bak.pc = "remove"
    /\ durable' = durable \ {bak.cur}
    /\ bak' = [bak EXCEPT !.pc = "upload"]
    /\ UNCHANGED <<running, args, ctl, sched, buffer, transcripts, rec,
                   lis, copyLog, handled, initCount, midStop, pool, cls, hist,
                   sc, clf, seen,
                   nm, seg, rfm, sel, copying>>

\* lines 65-67: ftp.quit() in the finally clause sends QUIT and reads the
\* reply; on a connection that was lost it raises, outside every try
QuitFtp ==
    /\ bak.pc = "quit"
    /\ \/ bak' = [bak EXCEPT !.pc = "returned"]
       \/ bak' = [bak EXCEPT !.pc = "propagated"]
    /\ UNCHANGED <<running, args, ctl, sched, durable, buffer, transcripts, rec,
                   lis, copyLog, handled, initCount, midStop, pool, cls, hist,
                   sc, clf, seen,
                   nm, seg, rfm, sel, copying>>

\* ---------------------------------------------------------------- flag
\* the processes that read the flag
Readers == {"recorder", "listener", "classifier"}

NoReads == [p \in Readers |-> "-"]

\* str(bool)
Str(b) == IF b THEN "True" ELSE "False"

MaxWrites == 4

WriteFlagToggle(v) ==
    /\ Len(hist) < MaxWrites
    /\ running' = (running # v)
    /\ hist' = Append(hist, Str(v))
    /\ UNCHANGED <<args, ctl, sched, durable, buffer, transcripts, rec,
                   lis, copyLog, handled, initCount, midStop, pool, cls,
                   sc, clf, bak, seen,
                   nm, seg, rfm, sel, copying>>

\* config.shared_config["running"] = v (wavepulse.py lines 35 and 136)
WriteFlag(v) ==
    /\ Len(hist) < MaxWrites
    /\ running' = v
    /\ hist' = Append(hist, Str(v))
    /\ UNCHANGED <<args, ctl, sched, durable, buffer, transcripts, rec,
                   lis, copyLog, handled, initCount, midStop, pool, cls,
                   sc, clf, bak, seen,
                   nm, seg, rfm, sel, copying>>

\* a process evaluates config.shared_config["running"]
ReadFlag(p) ==
    /\ seen' = [seen EXCEPT ![p] = Str(running)]
    /\ UNCHANGED <<running, args, ctl, sched, durable, buffer, transcripts, rec,
                   lis, copyLog, handled, initCount, midStop, pool, cls, hist,
                   sc, clf, bak,
                   nm, seg, rfm, sel, copying>>

\* ---------------------------------------------------------- file names
\* A file name is the sequence of its characters.
\* "%04d"
Four(n) ==
    <<Chars[(n \div 1000) + 1], Chars[((n \div 100) % 10) + 1],
      Chars[((n \div 10) % 10) + 1], Chars[(n % 10) + 1]>>

\* datetime.strftime with "%Y_%m_%d_%H_%M"
StrftimeName(t) ==
    Four(t.year) \o <<"_">> \o Two(t.month) \o <<"_">> \o Two(t.day)
       \o <<"_">> \o Two(t.hour) \o <<"_">> \o Two(t.minute)

\* process_schedule_file, line 162: f"{station['state']}_{station['radio_name']}"
RadioName(state, radio_name) == state \o <<"_">> \o radio_name

\* record_live_stream, lines 193-195: f"{radio_name}_{string_datetime}.mp3"
AudioFileName(radio_name, current_time) ==
    radio_name \o <<"_">> \o StrftimeName(current_time) \o <<".", "m", "p", "3">>

\* transcribe_audio, lines 124-127: f"{audio_file_name[:-4]}.json"
TranscriptFileName(audio_file_name) ==
    SubSeq(audio_file_name, 1, Len(audio_file_name) - 4)
       \o <<".", "j", "s", "o", "n">>

\* str.split(sep): the pieces between the separators, empty ones included
RECURSIVE Split(_, _)
Split(s, sep) ==
    IF \A k \in 1..Len(s) : s[k] # sep
    THEN <<s>>
    ELSE LET k == CHOOSE k \in 1..Len(s) :
                     s[k] = sep /\ \A j \in 1..(k - 1) : s[j] # sep
         IN  <<SubSeq(s, 1, k - 1)>> \o Split(SubSeq(s, k + 1, Len(s)), sep)

IsDigits(ds) ==
    ds # <<>> /\ \A k \in 1..Len(ds) : ds[k] \in {Chars[j] : j \in 1..10}

RECURSIVE Decimal(_)
Decimal(ds) ==
    IF ds = <<>> THEN 0
    ELSE 10 * Decimal(SubSeq(ds, 1, Len(ds) - 1)) + Digit(ds[Len(ds)])

\* int(s) of a string of digits; -1 for ValueError
ToInt(ds) == IF IsDigits(ds) THEN Decimal(ds) ELSE -1

\* reformat_and_save, lines 38-39
NameDetails(audio_file_name) == Split(Split(audio_file_name, ".")[1], "_")

\* the result of a parse that raised (IndexError of name_details[-5], or
\* ValueError of int)
NameError ==
    [state_code |-> <<>>, year |-> -1, month |-> -1, day |-> -1, hour |-> -1,
     minute |-> -1]

ParsedNameFromFront(audio_file_name) ==
    LET name_details == NameDetails(audio_file_name)
        p == [state_code |-> name_details[1],
              year |-> ToInt(name_details[3]),
              month |-> ToInt(name_details[4]),
              day |-> ToInt(name_details[5]),
              hour |-> ToInt(name_details[6]),
              minute |-> ToInt(name_details[7])]
    IN  IF Len(name_details) < 7 THEN NameError
        ELSE IF -1 \in {p.year, p.month, p.day, p.hour, p.minute} THEN NameError
        ELSE p

\* reformat_and_save, lines 38-45: the state code and the capture minute
ParsedName(audio_file_name) ==
    LET name_details == NameDetails(audio_file_name)
        n == Len(name_details)
        p == [state_code |-> name_details[1],
              year |-> ToInt(name_details[n - 4]),
              month |-> ToInt(name_details[n - 3]),
              day |-> ToInt(name_details[n - 2]),
              hour |-> ToInt(name_details[n - 1]),
              minute |-> ToInt(name_details[n])]
    IN  IF n < 5 THEN NameError
        ELSE IF -1 \in {p.year, p.month, p.day, p.hour, p.minute} THEN NameError
        ELSE p

NoName ==
    [pc |-> "-", state |-> <<>>, radio_name |-> <<>>,
     current_time |-> [year |-> 0, month |-> 0, day |-> 0, hour |-> 0,
                       minute |-> 0],
     audio |-> <<>>, json |-> <<>>, parsed |-> NameError]

\* record_live_stream, lines 193-197: the segment's file name, stamped with
\* the time of the segment's start
StampFileName ==
    /\ nm.pc = "record"
    /\ nm' = [nm EXCEPT !.pc = "transcribe",
                        !.audio = AudioFileName(RadioName(nm.state, nm.radio_name),
                                                nm.current_time)]
    /\ UNCHANGED <<running, args, ctl, sched, durable, buffer, transcripts, rec,
                   lis, copyLog, handled, initCount, midStop, pool, cls, hist,
                   sc, clf, bak, seen, seg, rfm, sel, copying>>

\* transcribe_audio, lines 124-130: the transcript's file name
NameTranscript ==
    /\ nm.pc = "transcribe"
    /\ nm' = [nm EXCEPT !.pc = "classify", !.json = TranscriptFileName(nm.audio)]
    /\ UNCHANGED <<running, args, ctl, sched, durable, buffer, transcripts, rec,
                   lis, copyLog, handled, initCount, midStop, pool, cls, hist,
                   sc, clf, bak, seen, seg, rfm, sel, copying>>

\* classification_listener, lines 186 and 210-211, and reformat_and_save,
\* lines 38-46: the name of the transcript is parsed
ParseFileName ==
    /\ nm.pc = "classify"
    /\ nm' = [nm EXCEPT !.pc = "parsed", !.parsed = ParsedName(nm.json)]
    /\ UNCHANGED <<running, args, ctl, sched, durable, buffer, transcripts, rec,
                   lis, copyLog, handled, initCount, midStop, pool, cls, hist,
                   sc, clf, bak, seen, seg, rfm, sel, copying>>

\* ------------------------------------------------- record_segment, timed
\* One call of record_segment with its clock.  The unit of time is the time
\* one chunk takes: in a playlist stream the download of a chunk and the
\* sleep of target_duration, in a direct stream one read of the response.  A
\* request that fails takes one unit.
\* the longest playlist (number of chunks it lists)
PlaylistLen == 2

\* wait_time, in units of time
WaitTime == 1

NoSegment ==
    [pc |-> "-", url |-> "-", retries |-> 0, window |-> 0,
     now |-> 0, called |-> 0, start_time |-> 0, end_time |-> 0,
     attempt |-> 0, head |-> 0, j |-> 0, file |-> <<>>,
     last |-> "-", site |-> "-", ret |-> "-"]

\* time.time() advances by d
Elapse(r, d) == [r EXCEPT !.now = @ + d]

\* f.write of the chunk numbered c
Write(r, c) == [r EXCEPT !.file = Append(@, [chunk |-> c, at |-> r.now])]

\* lines 76-80 and 90-94: the flag is read after the chunk was written
FlagRead(r) == IF ~running THEN Return(r, "stopped") ELSE r

\* lines 47-53 and 83-85: the top of the for loop; a direct stream is
\* requested and start_time is set anew, the output file is opened with "wb"
SegmentAttempt ==
    /\ seg.pc = "attempt"
    /\ IF seg.url = "m3u8"
       THEN seg' = [seg EXCEPT !.pc = "playlist", !.file = <<>>]
       ELSE \E o \in Outcomes :
               seg' = IF o = "ok"
                      THEN [seg EXCEPT !.pc = "direct", !.file = <<>>,
                                       !.start_time = seg.now, !.last = "ok"]
                      ELSE AfterRequest(Elapse(seg, 1), o)
    /\ UNCHANGED <<running, args, ctl, sched, durable, buffer, transcripts, rec,
                   lis, copyLog, handled, initCount, midStop, pool, cls, hist,
                   sc, clf, bak, seen, nm, rfm, sel, copying>>

\* lines 54-58: the while test and m3u8.load; the server lists window chunks
\* from its oldest one on, which is never older than at the load before
LoadPlaylist ==
    /\ seg.pc = "playlist"
    /\ IF seg.now >= seg.end_time
       THEN seg' = Return(seg, "ok")
       ELSE \/ \E h \in seg.head..(seg.head + seg.window) :
                  seg' = [seg EXCEPT !.pc = "chunk", !.head = h, !.j = 1]
            \/ seg' = Return(seg, "empty")
    /\ UNCHANGED <<running, args, ctl, sched, durable, buffer, transcripts, rec,
                   lis, copyLog, handled, initCount, midStop, pool, cls, hist,
                   sc, clf, bak, seen, nm, rfm, sel, copying>>

\* lines 61-80: one chunk of the playlist
PlaylistChunk ==
    /\ seg.pc = "chunk"
    /\ IF seg.j > seg.window \/ seg.now >= seg.end_time
       THEN seg' = [seg EXCEPT !.pc = "playlist"]
       ELSE \E o \in Outcomes :
               seg' = IF o = "ok"
                      THEN FlagRead(Elapse(Write([seg EXCEPT !.j = @ + 1,
                                                             !.last = "ok"],
                                                 seg.head + seg.j - 1), 1))
                      ELSE AfterRequest(Elapse(seg, 1), o)
    /\ UNCHANGED <<running, args, ctl, sched, durable, buffer, transcripts, rec,
                   lis, copyLog, handled, initCount, midStop, pool, cls, hist,
                   sc, clf, bak, seen, nm, rfm, sel, copying>>

\* lines 86-96: one turn of the loop of a direct stream; the stream goes on
\* from where the server is (head counts the chunks it has sent)
DirectChunk ==
    /\ seg.pc = "direct"
    /\ IF seg.now - seg.start_time >= SegmentDuration
       THEN seg' = Return(seg, "ok")
       ELSE \E o \in Outcomes :
               seg' = IF o = "ok"
                      THEN FlagRead(Elapse(Write([seg EXCEPT !.head = @ + 1,
                                                             !.last = "ok"],
                                                 seg.head), 1))
                      ELSE AfterRequest(Elapse(seg, 1), o)
    /\ UNCHANGED <<running, args, ctl, sched, durable, buffer, transcripts, rec,
                   lis, copyLog, handled, initCount, midStop, pool, cls, hist,
                   sc, clf, bak, seen, nm, rfm, sel, copying>>

\* line 111 and the else clause of the for loop
SegmentWait ==
    /\ seg.pc = "wait"
    /\ LET r == Elapse([seg EXCEPT !.attempt = @ + 1], WaitTime)
       IN  seg' = IF r.attempt < Attempts(seg.retries)
                  THEN [r EXCEPT !.pc = "attempt"]
                  ELSE Return(r, "exhausted")
    /\ UNCHANGED <<running, args, ctl, sched, durable, buffer, transcripts, rec,
                   lis, copyLog, handled, initCount, midStop, pool, cls, hist,
                   sc, clf, bak, seen, nm, rfm, sel, copying>>

\* ---------------------------------------------------- reformat_and_save
\* the labels classify_political and classify_ad give a segment
ContentClasses == {"Apolitical Content", "Political Content", "unsure"}
AdClasses == {"Advertisement", "Not Advertisement", "unsure"}

\* a line of a text file: the text line of the k-th segment, or a marker
TextLine(k) == [line |-> k, marker |-> "-"]
Marker(m) == [line |-> 0, marker |-> m]

NoReformat ==
    [pc |-> "-", classified_transcript |-> <<>>, i |-> 0,
     apolitical_flag |-> 0, ad_flag |-> 0, political_flag |-> 0,
     file1 |-> <<>>, file2 |-> <<>>, file3 |-> <<>>]

Flags(r, apolitical, ad, political) ==
    [r EXCEPT !.apolitical_flag = apolitical, !.ad_flag = ad,
              !.political_flag = political]

ReformatSegmentKeepsFlags(r, segment, k) ==
    IF segment.content_class = "Apolitical Content" /\ r.apolitical_flag = 0
    THEN [Flags(r, 1, r.ad_flag, r.political_flag) EXCEPT
            !.file1 = Append(@, Marker("Apolitical Content")),
            !.file2 = Append(@, Marker("Apolitical Content")),
            !.file3 = Append(@, TextLine(k))]
    ELSE IF segment.content_class = "Apolitical Content" /\ r.apolitical_flag = 1
    THEN [r EXCEPT !.file3 = Append(@, TextLine(k))]
    ELSE IF segment.ad_class = "Advertisement" /\ r.ad_flag = 0
    THEN [Flags(r, r.apolitical_flag, 1, r.political_flag) EXCEPT
            !.file1 = Append(@, Marker("Political Advertisement")),
            !.file2 = Append(@, TextLine(k)),
            !.file3 = Append(@, Marker("Political Advertisement"))]
    ELSE IF segment.ad_class = "Advertisement" /\ r.ad_flag = 1
    THEN [r EXCEPT !.file2 = Append(@, TextLine(k))]
    ELSE IF r.political_flag = 0
    THEN [Flags(r, r.apolitical_flag, r.ad_flag, 1) EXCEPT
            !.file1 = Append(@, TextLine(k)),
            !.file2 = Append(@, Marker("Political Content")),
            !.file3 = Append(@, Marker("Political Content"))]
    ELSE [r EXCEPT !.file1 = Append(@, TextLine(k))]

\* reformat_and_save, lines 60-104: one turn of the for loop, for the k-th
\* segment (file1 is the political, file2 the political advertisement and
\* file3 the apolitical text file)
ReformatSegment(r, segment, k) ==
    IF segment.content_class = "Apolitical Content" /\ r.apolitical_flag = 0
    THEN [Flags(r, 1, 0, 0) EXCEPT
            !.file1 = Append(@, Marker("Apolitical Content")),
            !.file2 = Append(@, Marker("Apolitical Content")),
            !.file3 = Append(@, TextLine(k))]
    ELSE IF segment.content_class = "Apolitical Content" /\ r.apolitical_flag = 1
    THEN [r EXCEPT !.file3 = Append(@, TextLine(k))]
    ELSE IF segment.ad_class = "Advertisement" /\ r.ad_flag = 0
    THEN [Flags(r, 0, 1, 0) EXCEPT
            !.file1 = Append(@, Marker("Political Advertisement")),
            !.file2 = Append(@, TextLine(k)),
            !.file3 = Append(@, Marker("Political Advertisement"))]
    ELSE IF segment.ad_class = "Advertisement" /\ r.ad_flag = 1
    THEN [r EXCEPT !.file2 = Append(@, TextLine(k))]
    ELSE IF r.political_flag = 0
    THEN [Flags(r, 0, 0, 1) EXCEPT
            !.file1 = Append(@, TextLine(k)),
            !.file2 = Append(@, Marker("Political Content")),
            !.file3 = Append(@, Marker("Political Content"))]
    ELSE [r EXCEPT !.file1 = Append(@, TextLine(k))]

\* reformat_and_save, lines 49-58: the flags are cleared and the three text
\* files are opened with "w"
OpenTextFiles ==
    /\ rfm.pc = "open"
    /\ rfm' = [Flags(rfm, 0, 0, 0) EXCEPT !.pc = "loop", !.i = 1,
                 !.file1 = <<>>, !.file2 = <<>>, !.file3 = <<>>]
    /\ UNCHANGED <<running, args, ctl, sched, durable, buffer, transcripts, rec,
                   lis, copyLog, handled, initCount, midStop, pool, cls, hist,
                   sc, clf, bak, seen, nm, seg, sel, copying>>

\* reformat_and_save, lines 60-107: the next segment, or the return
WriteSegment ==
    /\ rfm.pc = "loop"
    /\ IF rfm.i > Len(rfm.classified_transcript)
       THEN rfm' = [rfm EXCEPT !.pc = "done"]
       ELSE rfm' = [ReformatSegment(rfm, rfm.classified_transcript[rfm.i], rfm.i)
                      EXCEPT !.i = @ + 1]
    /\ UNCHANGED <<running, args, ctl, sched, durable, buffer, transcripts, rec,
                   lis, copyLog, handled, initCount, midStop, pool, cls, hist,
                   sc, clf, bak, seen, nm, seg, sel, copying>>

\* ----------------------------------------- classification batch selection
\* the most files os.listdir finds in unclassified_buffer
MaxListing == 4

\* a file of unclassified_buffer: its name without the extension, and the
\* extension
FileNamed(b, e) == [base |-> b, ext |-> e]
Extensions == {"json", "txt"}

\* file.endswith(".json")
EndsWithJson(file) == file.ext = "json"

\* list.remove(x): the list without the first item equal to x
ListRemove(l, x) ==
    LET k == CHOOSE k \in 1..Len(l) : l[k] = x /\ \A j \in 1..(k - 1) : l[j] # x
    IN  SubSeq(l, 1, k - 1) \o SubSeq(l, k + 1, Len(l))

\* l[:n]
Prefix(l, n) == SubSeq(l, 1, Min(n, Len(l)))

NoSelect ==
    [pc |-> "-", listing |-> <<>>, temp_files |-> <<>>, k |-> 0, n |-> 0,
     batch |-> <<>>]

\* classification_listener, lines 141-147: the while test, n and os.listdir
ListUnclassified ==
    /\ sel.pc = "poll"
    /\ IF ~running
       THEN sel' = [sel EXCEPT !.pc = "exited"]
       ELSE sel' = [sel EXCEPT !.pc = "filter", !.temp_files = sel.listing,
                               !.k = 0, !.batch = <<>>]
    /\ UNCHANGED <<running, args, ctl, sched, durable, buffer, transcripts, rec,
                   lis, copyLog, handled, initCount, midStop, pool, cls, hist,
                   sc, clf, bak, seen, nm, seg, rfm, copying>>

\* lines 148-150: one turn of "for file in temp_files"; the iterator of a
\* list is an index into it (k), and temp_files.remove(file) shortens the
\* list that is being iterated
FilterFile ==
    /\ sel.pc = "filter"
    /\ IF sel.k >= Len(sel.temp_files)
       THEN sel' = [sel EXCEPT !.pc = "select"]
       ELSE LET file == sel.temp_files[sel.k + 1]
            IN  sel' = [sel EXCEPT
                          !.k = @ + 1,
                          !.temp_files = IF ~EndsWithJson(file)
                                         THEN ListRemove(@, file) ELSE @]
    /\ UNCHANGED <<running, args, ctl, sched, durable, buffer, transcripts, rec,
                   lis, copyLog, handled, initCount, midStop, pool, cls, hist,
                   sc, clf, bak, seen, nm, seg, rfm, copying>>

\* lines 151-161: no file (sleep and test again), or the first n files
SelectBatch ==
    /\ sel.pc = "select"
    /\ IF sel.temp_files = <<>>
       THEN sel' = [sel EXCEPT !.pc = "poll"]
       ELSE sel' = [sel EXCEPT !.pc = "load",
                               !.batch = Prefix(sel.temp_files, sel.n)]
    /\ UNCHANGED <<running, args, ctl, sched, durable, buffer, transcripts, rec,
                   lis, copyLog, handled, initCount, midStop, pool, cls, hist,
                   sc, clf, bak, seen, nm, seg, rfm, copying>>

\* ------------------------------------------------- shutil.copy, in steps
\* copy_to_buffer, lines 130-133: shutil.copy creates the file in the buffer
\* directory under its final name and then writes its content
CopyBegin(s) ==
    /\ rec[s].pc = "copy"
    /\ LET f == FileName(s, rec[s].segment)
           j == rec[s].temp_folder
       IN  /\ buffer' = CopyInto(buffer, j, f)
           /\ copying' = copying \cup {<<j, f>>}
    /\ rec' = [rec EXCEPT ![s] = [@ EXCEPT !.pc = "copying"]]
    /\ UNCHANGED <<running, args, ctl, sched, durable,
                   transcripts, lis, copyLog, handled, initCount, pool, cls, hist,
                   midStop, sc, clf, bak, seen, nm, seg, rfm, sel>>

\* copy_to_buffer, lines 133-137: the content is written and shutil.copy
\* sets the mode of the file, which raises if the file is no longer there
CopyEnd(s) ==
    /\ rec[s].pc = "copying"
    /\ LET f == FileName(s, rec[s].segment)
           j == rec[s].temp_folder
       IN  /\ copying' = copying \ {<<j, f>>}
           /\ copyLog' = copyLog \cup {<<f, j>>}
           /\ rec' = [rec EXCEPT ![s] =
                        IF f \in buffer[j]
                        THEN [@ EXCEPT !.pc = "segment", !.i = 0,
                                       !.min_files = 0, !.temp_folder = 0,
                                       !.counts = <<>>]
                        ELSE Raised(@)]
    /\ UNCHANGED <<running, args, ctl, sched, durable, buffer,
                   transcripts, lis, handled, initCount, pool, cls, hist,
                   midStop, sc, clf, bak, seen, nm, seg, rfm, sel>>

\* ------------------------------------------------------- specification
\* files present in the buffer directories when the application starts
LeftoverFiles(c) == [i \in Devices |-> {Leftover(i, j) : j \in 1..c[i]}]

\* the state after the imports and the directory set-up of start_observatory
\* (config.py line 10, wavepulse.py lines 57-132) for configuration a and
\* c[i] files left in buffer directory i
Setup(a, c) ==
    /\ running = FALSE
    /\ args = a
    /\ ctl = [pc |-> "begin", i |-> 0, restart_flag |-> 1, compiled |-> 0]
    /\ sched = FALSE
    /\ durable = {}
    /\ buffer = LeftoverFiles(c)
    /\ initCount = c
    /\ transcripts = {}
    /\ rec = [s \in Stations |-> IdleRec]
    /\ lis = [i \in Devices |-> [g \in Generations |-> OffLis]]
    /\ copyLog = {}
    /\ handled = {}
    /\ midStop = [s \in Stations |-> -1]
    /\ pool = {}
    /\ cls = [g \in Generations |-> "off"]
    /\ hist = <<>>
    /\ sc = NoCompile
    /\ clf = NoClassifier
    /\ bak = NoBackup
    /\ seen = NoReads
    /\ nm = NoName
    /\ seg = NoSegment
    /\ rfm = NoReformat
    /\ sel = NoSelect
    /\ copying = {}

NoFiles == [i \in Devices |-> 0]

\* The whole application: recorders, Listeners and the controller.
Init ==
    \E n \in 1..MaxListeners, d \in [{1} -> 1..MaxDuration],
       r \in 1..MaxRepetitions :
       Setup([no_of_devices |-> n, retries |-> 0, repetitions |-> r,
              stop_recording |-> FALSE, stop_transcription |-> FALSE,
              stop_classification |-> FALSE,
              duration |-> d], NoFiles)

Next ==
    \/ Controller
    \/ \E S \in SUBSET Stations : Dispatch(S)
    \/ \E s \in Stations : Recorder(s)
    \/ \E p \in pool : Join(p)
    \/ \E i \in Devices, g \in Generations : Listener(i, g)
    \/ \E g \in Generations : Classifier(g)

Spec == Init /\ [][Next]_vars

\* The whole application with an external interrupt of the main process.
NextInt ==
    \/ Next
    \/ Interrupt

SpecInt == Init /\ [][NextInt]_vars

\* The compilation of the schedule file at the start of a repetition, for
\* every schedule of NumStations stations with up to MaxWindows windows each
\* and several times of the day.
MaxWindows == 2

HHMM(h, m) == Two(h) \o <<":">> \o Two(m)
HMM(h, m) == <<Chars[h + 1]>> \o <<":">> \o Two(m)

ScheduleStarts == {HHMM(9, 0), HMM(9, 0), HHMM(10, 0), HHMM(23, 30)}
ScheduleEnds == {HHMM(10, 2), HHMM(10, 30), <<"1", "0", "3", "0">>}
ScheduleWindows == {<<a, b>> : a \in ScheduleStarts, b \in ScheduleEnds}

Clock(h, m, s) == 3600 * h + 60 * m + s
Nows ==
    {[t |-> Clock(0, 5, 0), day |-> "ordinary"],
     [t |-> Clock(10, 0, 30), day |-> "ordinary"],
     [t |-> Clock(10, 28, 30), day |-> "ordinary"],
     [t |-> Clock(23, 40, 0), day |-> "ordinary"],
     [t |-> Clock(23, 40, 0), day |-> "dec31"]}

\* the application with no recorder and no Listener started: the flag, the
\* controller's position, its events and the files of audio_dir are given
Rest(a, flag, pc, events, files) ==
    /\ running = flag
    /\ args = a
    /\ ctl = [pc |-> pc, i |-> 0, restart_flag |-> 1, compiled |-> 0]
    /\ sched = FALSE
    /\ durable = files
    /\ buffer = LeftoverFiles(NoFiles)
    /\ initCount = NoFiles
    /\ transcripts = {}
    /\ rec = [s \in Stations |-> IdleRec]
    /\ lis = [i \in Devices |-> [g \in Generations |-> OffLis]]
    /\ copyLog = {}
    /\ handled = {}
    /\ midStop = [s \in Stations |-> -1]
    /\ pool = {}
    /\ cls = [g \in Generations |-> "off"]
    /\ hist = events

\* the configuration with recording, transcription and classification off
AllOff ==
    [no_of_devices |-> 1, retries |-> 0, repetitions |-> 1,
     stop_recording |-> TRUE, stop_transcription |-> TRUE,
     stop_classification |-> TRUE, duration |-> <<>>]

\* the state of the application after line 136 of the first repetition
Started(a) == Rest(a, TRUE, "scheduler", <<"start">>, {})

InitSched ==
    \E now \in Nows,
       n \in [Stations -> 1..MaxWindows] :
       \E f \in [Stations -> [1..MaxWindows -> ScheduleWindows]] :
          /\ \A s \in Stations : \A k \in 1..MaxWindows :
                k > n[s] => f[s][k] = f[s][1]
          /\ Started([no_of_devices |-> 1, retries |-> 0, repetitions |-> 1,
                      stop_recording |-> FALSE, stop_transcription |-> TRUE,
                      stop_classification |-> TRUE, duration |-> <<>>])
          /\ sc = [NoCompile EXCEPT
                     !.pc = "adjust", !.now = now,
                     !.file = [s \in Stations |->
                                 [radio_name |-> s,
                                  time |-> [k \in 1..n[s] |-> f[s][k]]]]]
          /\ clf = NoClassifier
          /\ bak = NoBackup
          /\ seen = NoReads
          /\ nm = NoName
          /\ seg = NoSegment
          /\ rfm = NoReformat
          /\ sel = NoSelect
          /\ copying = {}

NextSched ==
    \/ HandleAlreadyStarted
    \/ GroupByTime
    \/ WriteProcessedSchedule
    \/ CreateScheduler

SpecSched == InitSched /\ [][NextSched]_vars

\* The compilation of a schedule of one window, for every hour of the day and
\* several minutes, at midnight (no window has started).
DurationMinutes == {0, 15, 30, 59}
DurationTimes == {HHMM(h, m) : h \in 0..23, m \in DurationMinutes}

InitDur ==
    \E a \in DurationTimes, b \in DurationTimes :
       /\ Started([no_of_devices |-> 1, retries |-> 0, repetitions |-> 1,
                   stop_recording |-> FALSE, stop_transcription |-> TRUE,
                   stop_classification |-> TRUE, duration |-> <<>>])
       /\ sc = [NoCompile EXCEPT
                  !.pc = "adjust", !.now = [t |-> 0, day |-> "ordinary"],
                  !.file = <<[radio_name |-> 1, time |-> <<(<<a, b>>)>>]>>]
       /\ clf = NoClassifier
       /\ bak = NoBackup
       /\ seen = NoReads
       /\ nm = NoName
       /\ seg = NoSegment
       /\ rfm = NoReformat
       /\ sel = NoSelect
       /\ copying = {}

SpecDur == InitDur /\ [][NextSched]_vars

\* The Classification Listener of the first repetition with transcripts of
\* every kind in unclassified_buffer, until the controller shuts down.
InitCls ==
    \E kind \in [Transcripts -> TranscriptKinds], n \in 0..MaxTranscripts :
       /\ Rest([AllOff EXCEPT !.stop_classification = FALSE], TRUE, "loop",
               <<"start">>, {})
       /\ sc = NoCompile
       /\ clf = [NoClassifier EXCEPT
                   !.pc = "poll", !.kind = kind, !.unclassified = 1..n,
                   !.txt = [f \in Transcripts |-> "none"]]
       /\ bak = NoBackup
       /\ seen = NoReads
       /\ nm = NoName
       /\ seg = NoSegment
       /\ rfm = NoReformat
       /\ sel = NoSelect
       /\ copying = {}

NextCls ==
    \/ ClassificationPoll
    \/ LoadTranscripts
    \/ ClassifyTranscripts
    \/ WriteClassifiedJson
    \/ ReformatAndSave
    \/ RemoveTranscript
    \/ Shutdown

SpecCls == InitCls /\ [][NextCls]_vars

\* The backup of audio_dir in the wait after a shutdown, for every set of
\* files the recorders have left there.
AudioFiles == {FileName(s, 1) : s \in Stations} \cup {FileName(1, 2)}

InitBak ==
    \E files \in SUBSET AudioFiles :
       /\ Rest(AllOff, FALSE, "drain", <<"start", "shutdown">>, files)
       /\ sc = NoCompile
       /\ clf = NoClassifier
       /\ bak = [NoBackup EXCEPT !.pc = "connect", !.local = files]
       /\ seen = NoReads
       /\ nm = NoName
       /\ seg = NoSegment
       /\ rfm = NoReformat
       /\ sel = NoSelect
       /\ copying = {}

NextBak ==
    \/ ConnectToFtp
    \/ ChangeDirectory
    \/ StoreFile
    \/ RemoveLocal
    \/ QuitFtp

SpecBak == InitBak /\ [][NextBak]_vars

\* The flag alone: any writes of it, by any process, and the reads.
InitFlag ==
    /\ Rest(AllOff, FALSE, "begin", <<>>, {})
    /\ sc = NoCompile
    /\ clf = NoClassifier
    /\ bak = NoBackup
    /\ seen = NoReads
    /\ nm = NoName
    /\ seg = NoSegment
    /\ rfm = NoReformat
    /\ sel = NoSelect
    /\ copying = {}

NextFlag ==
    \/ \E v \in BOOLEAN : WriteFlag(v)
    \/ \E p \in Readers : ReadFlag(p)

SpecFlag == InitFlag /\ [][NextFlag]_vars

\* The recorders of one slot and the Buffer Allocator, while the application
\* runs: the state after start-up with transcription switched off, for every
\* number of directories and every file count of each directory.
InitAlloc ==
    \E n \in 1..MaxDevices, d \in 1..MaxDuration,
       c \in [Devices -> 0..MaxLeftover] :
       /\ \A i \in Devices : i > n => c[i] = 0
       /\ args = [no_of_devices |-> n, retries |-> 0, repetitions |-> 1,
                  stop_recording |-> FALSE, stop_transcription |-> TRUE,
                  stop_classification |-> TRUE,
                  duration |-> [s \in Stations |-> d]]
       /\ running = TRUE
       /\ ctl = [pc |-> "loop", i |-> 0, restart_flag |-> 1, compiled |-> 1]
       /\ sched = TRUE
       /\ durable = {}
       /\ buffer = LeftoverFiles(c)
       /\ initCount = c
       /\ transcripts = {}
       /\ rec = [s \in Stations |-> IdleRec]
       /\ lis = [i \in Devices |-> [g \in Generations |-> OffLis]]
       /\ copyLog = {}
       /\ handled = {}
       /\ midStop = [s \in Stations |-> -1]
       /\ pool = {}
       /\ cls = [g \in Generations |-> "off"]
       /\ hist = <<>>
       /\ sc = NoCompile
       /\ clf = NoClassifier
       /\ bak = NoBackup
       /\ seen = NoReads
       /\ nm = NoName
       /\ seg = NoSegment
       /\ rfm = NoReformat
       /\ sel = NoSelect
       /\ copying = {}

NextAlloc ==
    \/ \E S \in SUBSET Stations : Dispatch(S)
    \/ \E s \in Stations : Recorder(s)
    \/ \E p \in pool : Join(p)

SpecAlloc == InitAlloc /\ [][NextAlloc]_vars

\* One slot or several of stations with their own durations, one buffer
\* directory: every recorder process and every stream_parallel invocation
\* keeps being scheduled.
InitPool ==
    \E d \in [Stations -> 1..MaxDuration] :
       /\ args = [no_of_devices |-> 1, retries |-> 0, repetitions |-> 1,
                  stop_recording |-> FALSE, stop_transcription |-> TRUE,
                  stop_classification |-> TRUE,
                  duration |-> d]
       /\ running = TRUE
       /\ ctl = [pc |-> "loop", i |-> 0, restart_flag |-> 1, compiled |-> 1]
       /\ sched = TRUE
       /\ durable = {}
       /\ buffer = LeftoverFiles(NoFiles)
       /\ initCount = NoFiles
       /\ transcripts = {}
       /\ rec = [s \in Stations |-> IdleRec]
       /\ lis = [i \in Devices |-> [g \in Generations |-> OffLis]]
       /\ copyLog = {}
       /\ handled = {}
       /\ midStop = [s \in Stations |-> -1]
       /\ pool = {}
       /\ cls = [g \in Generations |-> "off"]
       /\ hist = <<>>
       /\ sc = NoCompile
       /\ clf = NoClassifier
       /\ bak = NoBackup
       /\ seen = NoReads
       /\ nm = NoName
       /\ seg = NoSegment
       /\ rfm = NoReformat
       /\ sel = NoSelect
       /\ copying = {}

SpecPool ==
    /\ InitPool
    /\ [][NextAlloc]_vars
    /\ \A s \in Stations : WF_vars(Recorder(s))
    /\ WF_vars(\E p \in pool : Join(p))

\* The recorders under the Lifecycle Controller, transcription switched off.
InitRec ==
    \E r \in 0..MaxRetries, s \in Stations, d \in 1..MaxDuration :
       Setup([no_of_devices |-> 1, retries |-> r, repetitions |-> MaxRepetitions,
              stop_recording |-> FALSE, stop_transcription |-> TRUE,
              stop_classification |-> TRUE,
              duration |-> [x \in {s} |-> d]], NoFiles)

NextRec ==
    \/ Controller
    \/ \E S \in SUBSET Stations : Dispatch(S)
    \/ \E s \in Stations : Recorder(s)
    \/ \E p \in pool : Join(p)

SpecRec == InitRec /\ [][NextRec]_vars

\* The Listeners of one device under the Lifecycle Controller, recording
\* switched off, with files left in the buffer directory by an earlier run; a
\* Listener process may be killed at any point.  Every Listener process that
\* is alive keeps being scheduled.
InitLive ==
    \E c \in [Devices -> 0..LiveLeftover] :
       /\ \A i \in Devices : i > 1 => c[i] = 0
       /\ Setup([no_of_devices |-> 1, retries |-> 0, repetitions |-> MaxRepetitions,
                 stop_recording |-> TRUE, stop_transcription |-> FALSE,
                 stop_classification |-> TRUE,
                 duration |-> <<>>], c)

NextLive ==
    \/ Controller
    \/ \E g \in Generations : Listener(1, g)
    \/ \E g \in Generations : Kill(1, g)

SpecLive ==
    /\ InitLive
    /\ [][NextLive]_vars
    /\ \A g \in Generations : WF_vars(Listener(1, g))

\* the application in its wait loop with the flag set, nothing else started
Idle ==
    /\ Rest([AllOff EXCEPT !.stop_recording = FALSE], TRUE, "loop", <<"start">>, {})
    /\ sc = NoCompile
    /\ clf = NoClassifier
    /\ bak = NoBackup
    /\ seen = NoReads

\* The names of one segment on its way from the recorder to
\* reformat_and_save, for several stations and times of a segment's start.
StateCodes == {<<"N", "Y">>, <<"A", "K">>}
CallSigns ==
    {<<"K", "E", "N", "I">>, <<"K", "9">>, <<"W", "_", "1", "0">>,
     <<"W", "A", "B", "C", "-", "F", "M">>}
StartTimes ==
    [year : {2024, 2025}, month : {1, 12}, day : {1, 31}, hour : {0, 23},
     minute : {0, 59}]

InitName ==
    \E state \in StateCodes, radio_name \in CallSigns, t \in StartTimes :
       /\ Idle
       /\ nm = [NoName EXCEPT !.pc = "record", !.state = state,
                              !.radio_name = radio_name, !.current_time = t]
       /\ seg = NoSegment
       /\ rfm = NoReformat
       /\ sel = NoSelect
       /\ copying = {}

NextName ==
    \/ StampFileName
    \/ NameTranscript
    \/ ParseFileName

SpecName == InitName /\ [][NextName]_vars

\* One call of record_segment (lines 43-45 done: the call is at time 0) on a
\* playlist or a direct stream, until the controller shuts down or after.
InitSegment ==
    \E url \in {"m3u8", "direct"}, r \in 0..MaxRetries, w \in 1..PlaylistLen :
       /\ Idle
       /\ nm = NoName
       /\ seg = [NoSegment EXCEPT !.pc = "attempt", !.url = url, !.retries = r,
                                  !.window = w, !.head = 1,
                                  !.end_time = SegmentDuration]
       /\ rfm = NoReformat
       /\ sel = NoSelect
       /\ copying = {}

NextSegmentTimed ==
    \/ SegmentAttempt
    \/ LoadPlaylist
    \/ PlaylistChunk
    \/ DirectChunk
    \/ SegmentWait
    \/ Shutdown

SpecSegment == InitSegment /\ [][NextSegmentTimed]_vars

\* One call of reformat_and_save, for every sequence of up to MaxLabeled
\* labeled segments.
MaxLabeled == 4

Labels == [content_class : ContentClasses, ad_class : AdClasses]

InitReformat ==
    \E n \in 0..MaxLabeled :
       \E t \in [1..n -> Labels] :
          /\ Idle
          /\ nm = NoName
          /\ seg = NoSegment
          /\ rfm = [NoReformat EXCEPT !.pc = "open", !.classified_transcript = t]
          /\ sel = NoSelect
          /\ copying = {}

NextReformat ==
    \/ OpenTextFiles
    \/ WriteSegment

SpecReformat == InitReformat /\ [][NextReformat]_vars

\* One cycle of the Classification Listener, for every listing of up to
\* MaxListing files of unclassified_buffer with or without the extension
\* .json, and every n up to ConcurrentClassification.
InitSelect ==
    \E n \in 1..ConcurrentClassification, m \in 0..MaxListing :
       \E e \in [1..m -> Extensions] :
          /\ Idle
          /\ nm = NoName
          /\ seg = NoSegment
          /\ rfm = NoReformat
          /\ sel = [NoSelect EXCEPT !.pc = "poll", !.n = n,
                                    !.listing = [k \in 1..m |-> FileNamed(k, e[k])]]
          /\ copying = {}

NextSelect ==
    \/ ListUnclassified
    \/ FilterFile
    \/ SelectBatch
    \/ Shutdown

SpecSelect == InitSelect /\ [][NextSelect]_vars

\* One recorder and the Listeners of the first repetition while the
\* application runs, with shutil.copy taken in its two steps.
InitCopy ==
    \E n \in 1..MaxListeners, d \in 1..MaxDuration :
       /\ args = [no_of_devices |-> n, retries |-> 0, repetitions |-> 1,
                  stop_recording |-> FALSE, stop_transcription |-> FALSE,
                  stop_classification |-> TRUE,
                  duration |-> [s \in {1} |-> d]]
       /\ running = TRUE
       /\ ctl = [pc |-> "loop", i |-> 0, restart_flag |-> 1, compiled |-> 1]
       /\ sched = TRUE
       /\ durable = {}
       /\ buffer = LeftoverFiles(NoFiles)
       /\ initCount = NoFiles
       /\ transcripts = {}
       /\ rec = [s \in Stations |-> IdleRec]
       /\ lis = [i \in Devices |->
                   [g \in Generations |->
                      IF i <= n /\ g = 1 THEN [OffLis EXCEPT !.pc = "poll"]
                      ELSE OffLis]]
       /\ copyLog = {}
       /\ handled = {}
       /\ midStop = [s \in Stations |-> -1]
       /\ pool = {}
       /\ cls = [g \in Generations |-> "off"]
       /\ hist = <<"start">>
       /\ sc = NoCompile
       /\ clf = NoClassifier
       /\ bak = NoBackup
       /\ seen = NoReads
       /\ nm = NoName
       /\ seg = NoSegment
       /\ rfm = NoReformat
       /\ sel = NoSelect
       /\ copying = {}

NextCopy ==
    \/ \E S \in SUBSET Stations : Dispatch(S)
    \/ \E s \in Stations : NextSegment(s)
    \/ \E s \in Stations : BeginAttempt(s)
    \/ \E s \in Stations : Capture(s)
    \/ \E s \in Stations : Wait(s)
    \/ \E s \in Stations : AfterSegment(s)
    \/ \E s \in Stations : ListDir(s)
    \/ \E s \in Stations : CopyBegin(s)
    \/ \E s \in Stations : CopyEnd(s)
    \/ \E p \in pool : Join(p)
    \/ \E i \in Devices, g \in Generations : Listener(i, g)

SpecCopy == InitCopy /\ [][NextCopy]_vars

\* --------------------------------------------------------------- claims
MaxSegments == (MaxDuration + SegmentDuration - 1) \div SegmentDuration

\* the directories that hold file f, and those f was ever copied into
Holders(f) == {i \in Devices : f \in buffer[i]}
CopiesOf(f) == {i \in Devices : <<f, i>> \in copyLog}

\* the number of segments of station s that went through copy_to_buffer
Buffered(s) ==
    CASE rec[s].pc = "idle" -> 0
      [] rec[s].pc = "segment" -> rec[s].segment
      [] rec[s].pc = "done" /\ rec[s].out > 0 -> rec[s].segment
      [] OTHER -> rec[s].segment - 1

\* C1: every segment that was recorded and handed to copy_to_buffer has been
\* copied into exactly one buffer directory, one of 1..no_of_devices, a
\* segment not yet handed over into none, and at no time do two buffer
\* directories hold the same segment, whatever the interleaving of the
\* recorders of a slot.
C1_ExactlyOneBuffer ==
    \A s \in Stations, k \in 1..MaxSegments :
       LET f == FileName(s, k)
       IN  /\ Cardinality(Holders(f)) <= 1
           /\ Holders(f) \subseteq CopiesOf(f)
           /\ CopiesOf(f) \subseteq 1..args.no_of_devices
           /\ Cardinality(CopiesOf(f)) = (IF k <= Buffered(s) THEN 1 ELSE 0)

\* two recorders of one slot have each copied a segment, with several directories
C1_Witness ==
    /\ args.no_of_devices >= 2
    /\ \A s \in Stations : Buffered(s) >= 1
    /\ \E s, u \in Stations : Holders(FileName(s, 1)) # Holders(FileName(u, 1))

\* the lowest index among the indices of the minimal count of c
MinIndex(c) ==
    CHOOSE j \in 1..Len(c) :
       /\ \A k \in 1..Len(c) : c[j] <= c[k]
       /\ \A k \in 1..(j - 1) : c[k] > c[j]

\* C2: copy_to_buffer has read the live file count of each of the
\* no_of_devices directories and copies the segment into the directory with
\* the minimal count, the lowest index among several; the original stays in
\* the durable store and the other directories are unchanged.
C2_LeastLoadedLowestIndex ==
    [][\A s \in Stations :
          (rec[s].pc = "copy" /\ rec'[s].pc # "copy") =>
             LET f == FileName(s, rec[s].segment)
                 j == MinIndex(rec[s].counts)
             IN  /\ Len(rec[s].counts) = args.no_of_devices
                 /\ buffer' = [buffer EXCEPT ![j] = @ \cup {f}]
                 /\ f \notin buffer[j]
                 /\ durable' = durable
                 /\ f \in durable]_vars

\* a segment went into directory 2 of 3 after a tie of directories 2 and 3
C2_Witness ==
    /\ args.no_of_devices = 3
    /\ initCount[1] = 2 /\ initCount[2] = 1 /\ initCount[3] = 1
    /\ \E s \in Stations : <<FileName(s, 1), 2>> \in copyLog /\ FileName(s, 1) \in durable

\* the application started with 3, 1 and 2 files in its 3 buffer directories
Counts312 ==
    /\ args.no_of_devices = 3
    /\ initCount[1] = 3 /\ initCount[2] = 1 /\ initCount[3] = 2

\* the directories chosen by the allocations made so far
Chosen == {p[2] : p \in copyLog}

\* C3, as claimed: from counts [3,1,2] the first allocation chooses
\* directory 2 and the second one directory 3.
C3_SecondChoosesThree ==
    Counts312 =>
       /\ Cardinality(copyLog) = 1 => Chosen = {2}
       /\ Cardinality(copyLog) = 2 => Chosen = {2, 3}

\* C3, amended: from counts [3,1,2] the first allocation chooses directory 2
\* and so does the second one (counts [3,2,2], the tie goes to the lowest
\* index).
C3_SecondChoosesTwo ==
    (Counts312 /\ Cardinality(copyLog) \in {1, 2}) => Chosen = {2}

\* two allocations were made from counts [3,1,2]
C3_Witness == Counts312 /\ Cardinality(copyLog) = 2 /\ Cardinality(buffer[2]) = 3

\* C4: a file leaves buffer directory i only in the step in which a Listener
\* of directory i deletes the file it has just attempted; that step always
\* deletes it, a batch cut short by the cleared flag deletes nothing, and a
\* file that a Listener is done with is no longer in its directory.
C4_RemovedIffAttempted ==
    /\ [][\A i \in Devices :
            /\ \A f \in buffer[i] \ buffer'[i] :
                  \E g \in Generations :
                     /\ lis[i][g].pc = "remove" /\ lis[i][g].cur = f
                     /\ lis'[i][g].pc = "batch"
            /\ \A g \in Generations :
                  /\ (lis[i][g].pc = "remove" /\ lis'[i][g].pc = "batch")
                        => lis[i][g].cur \notin buffer'[i]
                  /\ (lis[i][g].pc = "batch" /\ lis'[i][g].pc = "poll")
                        => buffer' = buffer]_vars
    /\ [](\A p \in handled : p[2] \notin buffer[p[1]])

\* a Listener has deleted one file of a batch of two and left the other
\* because the flag was cleared
C4_Witness ==
    \E i \in Devices, g \in Generations :
       /\ lis[i][g].pc = "exited"
       /\ \E p \in handled : p[1] = i
       /\ buffer[i] # {}

\* C5: a file in the buffer directory (left there by a killed Listener or an
\* earlier run) is eventually deleted by a Listener, unless the flag is
\* cleared or no Listener of the directory is alive.
C5_NoLossInBuffer ==
    \A j \in 1..LiveLeftover :
       (Leftover(1, j) \in buffer[1]) ~>
          \/ Leftover(1, j) \notin buffer[1]
          \/ ~running
          \/ ~\E g \in Generations : Alive(lis[1][g])

\* the Listener of the first repetition was killed between transcribing a
\* file and deleting it, and a Listener started later has dealt with the file
C5_Witness ==
    /\ lis[1][1].pc = "killed"
    /\ lis[1][1].cur # 0
    /\ <<1, lis[1][1].cur>> \in handled
    /\ lis[1][1].cur \notin buffer[1]

\* C6: while the flag is set, every recorder and Listener that runs was
\* started in the current repetition (none runs on from before the restart).
C6_NoneSurvivesRestart ==
    running =>
       /\ \A s \in Stations :
             rec[s].pc \notin {"idle", "done"} => rec[s].epoch = ctl.i + 1
       /\ \A i \in Devices, g \in Generations :
             Alive(lis[i][g]) => g = ctl.i + 1

\* C7: after the flag was cleared during an attempt's capture, record_segment
\* starts no other attempt (midStop is the number of the attempt that was
\* capturing) and no later attempt returns True, the result after which the
\* segment is copied into a buffer directory.
C7_StopsWithoutRetry ==
    \A s \in Stations :
       midStop[s] >= 0 =>
          /\ rec[s].pc \in {"attempt", "capture"} => rec[s].attempt = midStop[s]
          /\ (rec[s].pc = "returned" /\ rec[s].ret = "True")
                => rec[s].attempt = midStop[s]

\* C8, as claimed: the value returned on a stop differs from the values
\* returned on exhausted retries and on a non-retryable error.
C8_StoppedDistinct ==
    \A s \in Stations :
       (rec[s].pc = "returned" /\ rec[s].site = "stopped") =>
          rec[s].ret \notin {ReturnValue("exhausted"), ReturnValue("break")}

\* C8, amended: record_segment returns False on a stop, the same value as on
\* exhausted retries (and None on a non-retryable error), and in all three
\* cases record_live_stream returns None to the Dispatcher.
C8_StoppedSameAsFailed ==
    /\ [](\A s \in Stations :
            rec[s].pc = "returned" =>
               /\ rec[s].site = "stopped" => rec[s].ret = "False"
               /\ rec[s].site = "exhausted" => rec[s].ret = "False"
               /\ rec[s].site = "break" => rec[s].ret = "None")
    /\ [][\A s \in Stations :
            (rec[s].pc = "returned" /\ rec'[s].pc # "returned"
               /\ rec[s].site \in {"stopped", "exhausted", "break"})
            => (rec'[s].pc = "done" /\ rec'[s].out = 0)]_vars

\* a recorder has stopped on the cleared flag
C8_Witness ==
    \E s \in Stations :
       rec[s].pc = "returned" /\ rec[s].site = "stopped" /\ ~running

\* C9: an attempt is preceded by as many sleeps as attempts; when all
\* attempts ended in a timeout or connection error there were retries + 1 of
\* them and the result is False; a successful attempt returns True.
C9_RetriesPlusOneAttempts ==
    \A s \in Stations :
       LET r == rec[s]
       IN  /\ r.pc \in {"attempt", "capture", "wait"} =>
                (r.attempt <= args.retries /\ r.sleeps = r.attempt)
           /\ (r.pc = "returned" /\ r.site = "exhausted") =>
                /\ r.attempt = args.retries + 1
                /\ r.sleeps = r.attempt
                /\ r.last \in {"timeout", "connection_error"}
                /\ r.ret = "False"
           /\ (r.pc = "returned" /\ r.site = "ok") =>
                (r.ret = "True" /\ r.attempt <= args.retries)

\* all attempts failed while the flag stayed set, with at least one retry
C9_Witness ==
    \E s \in Stations :
       /\ rec[s].pc = "returned" /\ rec[s].site = "exhausted"
       /\ args.retries >= 1 /\ running /\ ctl.i = 0

\* C10: after a request error other than timeout or connection error
\* record_segment has returned None without another attempt or sleep, and
\* record_live_stream then returns None.
C10_NonRetryableAborts ==
    /\ [](\A s \in Stations :
            rec[s].last = "request_error" =>
               /\ rec[s].pc = "returned" /\ rec[s].site = "break"
               /\ rec[s].ret = "None"
               /\ rec[s].sleeps = rec[s].attempt)
    /\ [][\A s \in Stations :
            (rec[s].last = "request_error" /\ rec'[s] # rec[s])
            => (rec'[s].pc = "done" /\ rec'[s].out = 0)]_vars

\* a non-retryable error on the first attempt, with retries left
C10_Witness ==
    \E s \in Stations :
       /\ rec[s].last = "request_error" /\ rec[s].attempt = 0
       /\ args.retries >= 1

\* C11: when record_segment returns an unsuccessful result for segment k,
\* record_live_stream returns None in its next step without touching a
\* buffer; once it has, no segment after k was recorded, no copy of segment k
\* or of a later one was made, and the copies of segments 1..k-1 are in place.
C11_FailedSegmentAbandonsSlot ==
    /\ [][\A s \in Stations :
            (rec[s].pc = "returned" /\ rec[s].ret # "True" /\ rec'[s] # rec[s])
            => (rec'[s].pc = "done" /\ rec'[s].out = 0 /\ buffer' = buffer)]_vars
    /\ [](\A s \in Stations :
            (rec[s].pc = "done" /\ rec[s].out = 0) =>
               \A j \in 1..MaxSegments :
                  LET f == FileName(s, j)
                  IN  /\ j > rec[s].segment => f \notin durable
                      /\ j >= rec[s].segment => CopiesOf(f) = {}
                      /\ j < rec[s].segment =>
                            (Cardinality(CopiesOf(f)) = 1 /\ Holders(f) = CopiesOf(f)))

\* the second segment of a station failed after its first one was copied
C11_Witness ==
    \E s \in Stations :
       /\ rec[s].pc = "done" /\ rec[s].out = 0 /\ rec[s].segment = 2
       /\ Holders(FileName(s, 1)) # {}
       /\ FileName(s, 2) \notin UNION {buffer[i] : i \in Devices}

\* the stream_parallel invocation for the stations S is in pool.map
Mapping(S) == \E p \in pool : p.stations = S /\ p.pc = "map"

\* C12: stream_parallel starts a recorder for every station of its slot; it
\* has returned (or raised) only when every one of them has ended, its end
\* changes no recorder, every recorder that runs reaches its end and every
\* invocation then ends, whatever the other recorders of the slot did.
C12_WaitsForAllRecorders ==
    /\ [](\A p \in pool :
            /\ \A s \in p.stations : rec[s].pc # "idle"
            /\ p.pc # "map" => \A s \in p.stations : rec[s].pc = "done")
    /\ [][(\E p \in pool : p.pc = "map" /\ p \notin pool') => rec' = rec]_vars
    /\ \A s \in Stations : (rec[s].pc \notin {"idle", "done"}) ~> (rec[s].pc = "done")
    /\ \A S \in SUBSET Stations : Mapping(S) ~> ~Mapping(S)

\* a slot of two stations has ended: one recorder failed on its first segment,
\* the other one recorded all its segments
C12_Witness ==
    \E p \in pool :
       /\ p.pc # "map"
       /\ \E s, u \in p.stations :
             /\ rec[s].out \in {0, -2} /\ rec[s].segment = 1
             /\ rec[u].out > 0 /\ rec[u].segment = 2

\* C13: a stream_parallel invocation that has returned has returned, for each
\* station of its slot, the value of that station's recorder: the path of its
\* last segment file, or the failure marker.
C13_ReturnsPerStationResult ==
    \A p \in pool :
       p.pc = "returned" => p.ret = [kind |-> "results", files |-> p.result_files]

\* ceil(D / SegmentDuration)
CeilSegments(D) == (D + SegmentDuration - 1) \div SegmentDuration

\* C14: a record_live_stream of total duration D splits it into D div S
\* segments of length S and one of length D mod S, records segment k+1 only
\* after segment k is in the durable store and was copied into a buffer, and,
\* when every segment succeeded, has recorded exactly ceil(D / S) segments and
\* returns the path of the last one.
C14_CeilSegmentsInOrder ==
    \A s \in DOMAIN args.duration :
       LET D == args.duration[s]
           r == rec[s]
       IN  /\ r.pc \notin {"idle", "done"} =>
                /\ r.num_segments * SegmentDuration + r.remaining_duration = D
                /\ r.remaining_duration < SegmentDuration
                /\ r.segment <= CeilSegments(D)
           /\ \A j \in 1..MaxSegments :
                 /\ j > CeilSegments(D) => FileName(s, j) \notin durable
                 /\ (j > 1 /\ FileName(s, j) \in durable) =>
                       /\ FileName(s, j - 1) \in durable
                       /\ CopiesOf(FileName(s, j - 1)) # {}
           /\ (r.pc = "done" /\ r.out > 0) =>
                /\ r.segment = CeilSegments(D)
                /\ r.out = FileName(s, CeilSegments(D))
                /\ \A j \in 1..CeilSegments(D) :
                      FileName(s, j) \in durable /\ CopiesOf(FileName(s, j)) # {}

\* a recording of a duration that is not a multiple of the segment duration
\* has succeeded with two segments
C14_Witness ==
    \E s \in DOMAIN args.duration :
       /\ args.duration[s] % SegmentDuration # 0
       /\ rec[s].pc = "done" /\ rec[s].out = FileName(s, 2)

C16_ErrorRemovedNotCounted ==
    [][\A i \in Devices, g \in Generations :
          LET l == lis[i][g]
              n == lis'[i][g]
          IN  n # l =>
                 /\ (l.pc = "poll" /\ n.pc = "batch") => n.count = 0
                 /\ l.pc = "transcribe" =>
                       /\ n.pc = "remove" /\ n.cur = l.cur /\ n.todo = l.todo
                       /\ \/ n.count = l.count + 1 /\ l.cur \in transcripts'
                          \/ n.count = l.count /\ transcripts' = transcripts
                 /\ l.pc = "remove" =>
                       /\ n.pc = "batch" /\ n.todo = l.todo /\ n.count = l.count
                       /\ l.cur \notin buffer'[i]
                 /\ (l.pc = "batch" /\ running) =>
                       IF l.todo = {} THEN n.pc = "poll"
                       ELSE /\ n.pc = "transcribe" /\ n.count = l.count
                            /\ n.cur \in l.todo /\ n.todo = l.todo \ {n.cur}]_vars

\* a batch of two files is over with the flag set: one file failed, the count
\* is 1, both files are gone from the buffer
C16_Witness ==
    \E i \in Devices, g \in Generations, f, e \in UNION {buffer[k] : k \in Devices} \cup durable :
       /\ running
       /\ lis[i][g].pc = "batch" /\ lis[i][g].todo = {} /\ lis[i][g].count = 1
       /\ <<i, f>> \in handled /\ <<i, e>> \in handled
       /\ f \in transcripts /\ e \notin transcripts
       /\ f \notin buffer[i] /\ e \notin buffer[i]

\* the last event of the controller
LastEvent == IF hist = <<>> THEN "-" ELSE hist[Len(hist)]

C18_FlagFirstScheduleRecompiled ==
    /\ [][(\/ sched' /\ ~sched
           \/ \E i \in Devices, g \in Generations :
                 lis[i][g].pc = "off" /\ lis'[i][g].pc # "off"
           \/ \E g \in Generations : cls[g] = "off" /\ cls'[g] # "off")
          => (running /\ LastEvent = "start")]_vars
    /\ [](ctl.pc \in {"scheduler", "listeners", "classifier"} => running)
    /\ [](sched => ctl.compiled = ctl.i + 1)

\* the second repetition runs with its own scheduler, Listener and
\* Classification Listener
C18_Witness ==
    /\ ctl.i = 1 /\ ctl.pc = "loop" /\ LastEvent = "start"
    /\ running /\ sched /\ ctl.compiled = 2
    /\ cls[2] = "poll"
    /\ \E i \in Devices : lis[i][2].pc = "poll"

\* the k-th event of a run that is not interrupted
EventAt(k) ==
    CASE k % 3 = 1 -> "start"
      [] k % 3 = 2 -> "shutdown"
      [] OTHER -> "restart"

C20_InterruptStopsAll ==
    ctl.pc \in {"interrupted", "crashed"} => (~running /\ ~sched)

\* ------------------------------------------------------------ schedule
Compiled == sc.pc \in {"write", "create", "started"}

\* the windows of the adjusted schedule that start at the time string t
WindowsAt(t) ==
    {k \in 1..Len(WindowsOf(sc.info)) : WindowsOf(sc.info)[k].start_time = t}

\* the i-th window, in the order of the schedule, of those that start at t
NthAt(t, i) ==
    CHOOSE k \in WindowsAt(t) : Cardinality({j \in WindowsAt(t) : j <= k}) = i

\* seconds from a start string to an end string, across midnight if needed
SecondsBetween(a, b) == (Strptime(b) - Strptime(a)) % DaySeconds

\* C21: in a compiled schedule every window's start time is the time of
\* exactly one slot; a slot holds one entry for each window that starts at
\* its time, in the order of the schedule, with that window's station and
\* duration, and nothing else; so no slot is empty and the entries of all
\* slots are as many as the windows.
C21_OneSlotPerStartTime ==
    Compiled =>
       /\ \A k \in 1..Len(WindowsOf(sc.info)) :
             Cardinality({j \in 1..Len(sc.slots) :
                            sc.slots[j].time = WindowsOf(sc.info)[k].start_time}) = 1
       /\ \A j \in 1..Len(sc.slots) :
             /\ Len(sc.slots[j].radio_list) >= 1
             /\ Len(sc.slots[j].radio_list) = Cardinality(WindowsAt(sc.slots[j].time))
             /\ \A i \in 1..Len(sc.slots[j].radio_list) :
                   LET w == WindowsOf(sc.info)[NthAt(sc.slots[j].time, i)]
                   IN  sc.slots[j].radio_list[i] =
                          [radio_name |-> w.radio_name,
                           duration |-> SecondsBetween(w.start_time, w.end_time)]

\* two slots, one of them with two stations of different durations
C21_Witness ==
    /\ sc.pc = "started"
    /\ Len(sc.slots) = 2
    /\ \E j \in 1..2 :
          /\ Len(sc.slots[j].radio_list) = 2
          /\ sc.slots[j].radio_list[1].radio_name # sc.slots[j].radio_list[2].radio_name
          /\ sc.slots[j].radio_list[1].duration # sc.slots[j].radio_list[2].duration

\* HH:MM of now + 2 minutes
NowPlusTwo == HHMM(((sc.now.t + 120) \div 3600) % 24, ((sc.now.t + 120) \div 60) % 60)

NoWrap(w) == Strptime(w[1]) <= Strptime(w[2])

\* the slots have an entry of station s with the duration from a to b at time a
Scheduled(s, a, b) ==
    \E j \in 1..Len(sc.slots) :
       /\ sc.slots[j].time = a
       /\ \E i \in 1..Len(sc.slots[j].radio_list) :
             sc.slots[j].radio_list[i] =
                [radio_name |-> s, duration |-> Strptime(b) - Strptime(a)]

C23_WrappedWindowMoved ==
    /\ sc.pc \in {"group", "write", "create", "started"} =>
          \A s \in 1..Len(sc.file) : \A k \in 1..Len(sc.file[s].time) :
             LET w == sc.file[s].time[k]
                 a == sc.info[s].time[k]
             IN  (/\ ~NoWrap(w)
                  /\ \/ /\ Strptime(w[1]) < sc.now.t
                        /\ Strptime(w[2]) + 86400 > sc.now.t + 120
                     \/ Strptime(w[2]) > sc.now.t + 120)
                 => a = <<NowPlusTwo, w[2]>>
    /\ sc.pc = "raised" =>
          \E s \in 1..Len(sc.file) : \E k \in 1..Len(sc.file[s].time) :
             ~Accepted(sc.file[s].time[k][1]) \/ ~Accepted(sc.file[s].time[k][2])

\* C24: the duration compiled for a window from a to b is (b - a) mod 24 h
\* in seconds: b - a if b is not before a, b + 24 h - a if it is; it is not
\* negative and less than 86400.
C24_DurationModuloDay ==
    Compiled =>
       LET a == sc.info[1].time[1][1]
           b == sc.info[1].time[1][2]
           d == sc.slots[1].radio_list[1].duration
       IN  /\ d = (Strptime(b) - Strptime(a)) % 86400
           /\ Strptime(b) >= Strptime(a) => d = Strptime(b) - Strptime(a)
           /\ Strptime(b) < Strptime(a) => d = Strptime(b) + 86400 - Strptime(a)
           /\ d >= 0 /\ d < 86400

\* 23:30 to 00:15 was compiled with 2700 seconds
C24_Witness ==
    /\ sc.pc = "started"
    /\ sc.file[1].time[1] = <<HHMM(23, 30), HHMM(0, 15)>>
    /\ sc.slots[1].radio_list[1].duration = 2700

\* C25: the slots of a compiled schedule are in ascending order of their
\* time of day, so no two have the same time of day, and no two triggers have
\* the same hour and minute.
C25_SlotTimesUniqueAscending ==
    /\ Compiled =>
          \A j, k \in 1..Len(sc.slots) :
             j < k => Strptime(sc.slots[j].time) < Strptime(sc.slots[k].time)
    /\ sc.pc = "started" =>
          \A j, k \in 1..Len(sc.triggers) :
             j # k => <<sc.triggers[j].hour, sc.triggers[j].minute>>
                      # <<sc.triggers[k].hour, sc.triggers[k].minute>>

\* a time string of the schedule file is not accepted
Malformed ==
    \E s \in 1..Len(sc.file) : \E k \in 1..Len(sc.file[s].time) :
       ~Accepted(sc.file[s].time[k][1]) \/ ~Accepted(sc.file[s].time[k][2])

\* C26: with a malformed time string in the schedule file the compilation
\* raises at its first step, and after it has raised processed_schedule.json
\* is not written, no trigger is registered and no scheduler runs.
C26_MalformedRejectsWholeSchedule ==
    /\ [](Malformed => sc.pc \in {"adjust", "raised"})
    /\ [][(Malformed /\ sc.pc = "adjust") => sc'.pc = "raised"]_vars
    /\ []((Malformed \/ sc.pc = "raised") =>
            (sc.processed = "absent" /\ sc.triggers = <<>> /\ ~sched))

\* the compilation raised for the last window of the last station, all
\* others being well formed
C26_Witness ==
    /\ sc.pc = "raised"
    /\ Len(sc.file) = 2 /\ Len(sc.file[2].time) = 2
    /\ Accepted(sc.file[1].time[1][2])
    /\ Accepted(sc.file[2].time[1][2])
    /\ ~Accepted(sc.file[2].time[2][2])

\* ------------------------------------------- classification listener
\* C27: whenever the Classification Listener is not working on a file, every
\* transcript either has its classified JSON and its complete text files and
\* is gone from unclassified_buffer, or has none of them written.
C27_NeverHalfProcessed ==
    clf.pc \in {"poll", "exited", "raised"} =>
       \A f \in Transcripts :
          \/ f \in clf.json /\ clf.txt[f] = "complete" /\ f \notin clf.unclassified
          \/ f \notin clf.json /\ clf.txt[f] = "none"

\* C28: while the flag is set the Classification Listener has not ended,
\* whatever the files of unclassified_buffer hold.
C28_FailureDoesNotStopListener ==
    running => clf.pc \notin {"raised", "exited"}

\* -------------------------------------------------------------- backup
\* C29: the backup removes a local file only when that file is on the
\* server; it makes at most 3 connection attempts and after the last failed
\* one returns with nothing stored or removed; when the loop is left, the
\* local files are those not stored; and it ends by returning.
C29_BackupDeletesOnlyUploaded ==
    /\ [][\A f \in AudioFiles :
            (f \in durable /\ f \notin durable') =>
               (f \in bak.remote /\ f = bak.cur)]_vars
    /\ [](bak.attempts <= 3)
    /\ []((bak.pc = "returned" /\ bak.attempts = 3) =>
            (bak.remote = {} /\ durable = bak.local))
    /\ [](bak.pc \in {"upload", "quit", "returned", "propagated"} =>
            durable = bak.local \ bak.remote)
    /\ [](bak.pc # "propagated")

\* ---------------------------------------------------------------- flag
\* C30: the flag is false before the first write and has the value of the
\* last write after it, whatever it was before that write; a read gives the
\* value of the flag, to every process.
C30_LastWriteWins ==
    /\ [](running = (hist # <<>> /\ hist[Len(hist)] = "True"))
    /\ [][\A v \in BOOLEAN :
            (Len(hist') = Len(hist) + 1 /\ hist'[Len(hist')] = Str(v)) =>
               (running' = v /\ (running = v => running' = running))]_vars
    /\ [][\A p \in Readers :
            seen'[p] # seen[p] => seen'[p] = Str(running)]_vars

\* the flag was cleared twice, then set twice, and every process reads true
C30_Witness ==
    /\ hist = <<"False", "False", "True", "True">>
    /\ running
    /\ \A p \in Readers : seen[p] = "True"

\* ---------------------------------------------------------- file names
\* the audio file name without its extension
Stem(audio_file_name) == SubSeq(audio_file_name, 1, Len(audio_file_name) - 4)

C32_NoChunkTwice ==
    \A a, b \in 1..Len(seg.file) :
       a # b => seg.file[a].chunk # seg.file[b].chunk

\* C33: every chunk of the segment file is taken before the time of the call
\* plus segment_duration (the chunk under way at that time included).
C33_CaptureEndsInTime ==
    \A k \in 1..Len(seg.file) :
       seg.file[k].at < seg.called + SegmentDuration + 1

\* C34: with the flag cleared, an attempt's time-out or connection error does
\* not lead to the wait, and the wait is not followed by another attempt.
C34_NoAttemptOnceCleared ==
    [][/\ (~running /\ seg.pc \in {"attempt", "chunk", "direct"})
             => seg'.pc # "wait"
       /\ (~running /\ seg.pc = "wait") => seg'.pc # "attempt"]_vars

\* ---------------------------------------------------- reformat_and_save
\* the view a segment's text line belongs to
View(segment) ==
    IF segment.content_class = "Apolitical Content" THEN "apolitical"
    ELSE IF segment.ad_class = "Advertisement" THEN "political_ad"
    ELSE "political"

MarkerOf(view) ==
    CASE view = "apolitical" -> "Apolitical Content"
      [] view = "political_ad" -> "Political Advertisement"
      [] view = "political" -> "Political Content"

\* the k-th segment begins a maximal run of segments of one view
RunStart(t, k) == k = 1 \/ View(t[k - 1]) # View(t[k])

\* what a view holds of the first n segments: the text line of every segment
\* of the view, and one marker where a run of another view begins
RECURSIVE ExpectedView(_, _, _)
ExpectedView(view, t, n) ==
    IF n = 0 THEN <<>>
    ELSE LET e == ExpectedView(view, t, n - 1)
         IN  IF View(t[n]) = view THEN Append(e, TextLine(n))
             ELSE IF RunStart(t, n) THEN Append(e, Marker(MarkerOf(View(t[n]))))
             ELSE e

\* C35: after every segment the three text files hold, in the order of the
\* segments, each segment's text line in the one view of its labels and one
\* marker in each of the other two views at the start of every maximal run,
\* and at most one of the three flags is set.
C35_ViewsByRuns ==
    /\ rfm.apolitical_flag + rfm.ad_flag + rfm.political_flag <= 1
    /\ rfm.pc \in {"loop", "done"} =>
          /\ rfm.file1 = ExpectedView("political", rfm.classified_transcript,
                                      rfm.i - 1)
          /\ rfm.file2 = ExpectedView("political_ad", rfm.classified_transcript,
                                      rfm.i - 1)
          /\ rfm.file3 = ExpectedView("apolitical", rfm.classified_transcript,
                                      rfm.i - 1)

\* four segments were written: political, two advertisements, political
C35_Witness ==
    /\ rfm.pc = "done"
    /\ Len(rfm.classified_transcript) = 4
    /\ <<View(rfm.classified_transcript[1]), View(rfm.classified_transcript[2]),
         View(rfm.classified_transcript[3]), View(rfm.classified_transcript[4])>>
          = <<"political", "political_ad", "political_ad", "political">>
    /\ Len(rfm.file1) = 3 /\ Len(rfm.file2) = 4 /\ Len(rfm.file3) = 3

\* ----------------------------------------- classification batch selection
\* C36: the batch has at most n files, all of them with the extension .json.
C36_BatchOfJsonFiles ==
    sel.pc = "load" =>
       /\ Len(sel.batch) <= sel.n
       /\ \A k \in 1..Len(sel.batch) : EndsWithJson(sel.batch[k])

\* ------------------------------------------------------------ listeners
\* C37: at most one Listener runs on each buffer directory.
C37_OneListenerPerDirectory ==
    \A i \in Devices : Cardinality({g \in Generations : Alive(lis[i][g])}) <= 1

\* C38: the file a Listener transcribes or removes is not one that
\* shutil.copy is still writing.
C38_TranscribesCompleteCopies ==
    \A i \in Devices, g \in Generations :
       lis[i][g].pc \in {"transcribe", "remove"} => <<i, lis[i][g].cur>> \notin copying

\* --------------------------------------------------------------- backup
\* C39: when the wait after the shutdown is over and the backup starts, no
\* recorder is running.
C39_NoRecorderAtBackup ==
    [][(ctl.pc = "drain" /\ ctl'.pc # "drain") =>
          \A s \in Stations : rec[s].pc \in {"idle", "done"}]_vars

\* ------------------------------------------------------------ schedule
\* C40: handle_already_started raises only for a malformed time string.
C40_HandleAlreadyStartedReturns == sc.pc = "raised" => Malformed

====
